---- MODULE Spec2Model ----
(***************************************************************************)
(* qwe-vpn client: the account store (AccountStorage), the connection      *)
(* orchestrator (VPNClientExecutor) and the command-line handlers of       *)
(* src/cli/python/src/client/cmd_client.py.                                *)
(*                                                                         *)
(* Every handler is one action.  An action runs the whole handler on the   *)
(* store file and records, in order, what the handler did to the outside   *)
(* world (store writes, management commands, service calls, exits) in the  *)
(* variable trace, and what it returned in ret.  When the handler has      *)
(* returned (or the process has exited) the caller is idle again and the   *)
(* next handler can run.                                                   *)
(***************************************************************************)
EXTENDS Integers, Sequences, FiniteSets, TLC

VARIABLES
    file,   \* content of the account store file (vpn.account.cache), a dict
    op,     \* the handler that ran last, with its arguments
    ret,    \* what it returned, or the exit code it ended the process with
    trace,  \* the effects of that handler, in program order
    installed, \* whether the VPN client binary is installed (is_installed)
    pid_files, \* the contents of the candidate PID files (.pid_*), in scan order
    pid_file,  \* the content of the canonical PID file (vpn.pid), None if absent
    device,    \* the three controllers of the DeviceResolver, None while unset
    resolv,    \* the resolver files: /etc/resolv.conf, resolv.vpn.conf and
               \* resolv.origin.conf of the cache directory
    service_cache, \* the service cache file (vpn.service.cache)
    loads,     \* per process: what it has loaded from the store and not written back
    writes     \* the store operations that have written the file, in order

vars == <<file, op, ret, trace, installed, pid_files, pid_file, device, resolv, service_cache,
          loads, writes>>

(***************************************************************************)
(* Bounds of the model.                                                    *)
(***************************************************************************)
\* longest account list handed to remove / do_delete / do_disconnect
MaxList == 2
\* how many of a handler's calls that can fail the environment decides on
\* (later calls succeed)
MaxCalls == 3

(***************************************************************************)
(* Values.                                                                 *)
(***************************************************************************)
\* Python's None / JSON null, kept apart from the empty string ''
None == "<None>"

\* Python truthiness of an optional string: `not x`
Falsy(x) == x = None \/ x = ""

\* the explicit account names the inputs draw from
Names == {"a"}

\* the hub of an account; '' is the degenerate hub a caller can still pass
Hubs == {"", "h"}
Hostnames == {"x", "y"}

\* what a caller can pass as the account name: omitted, empty, or a name
AccountArgs == {None, ""} \cup Names

\* every key a record can be stored under (account, or hub when omitted)
Keys == Names \cup Hubs

\* every value a pointer argument can take
PointerArgs == Keys

\* an absent optional dict argument (`_accounts=None`)
NoDict == [none |-> TRUE]
SomeDict(d) == [none |-> FALSE, dict |-> d]

\* an absent optional AccountInfo (`return None`)
NoInfo == [none |-> TRUE]

\* the dict {}
EmptyDict == << >>

\* dict.get(k, dflt)
Get(d, k, dflt) == IF k \in DOMAIN d THEN d[k] ELSE dflt

\* {**d, **e}: the entries of d, overwritten and extended by those of e
Merge(d, e) == [k \in (DOMAIN d) \cup (DOMAIN e) |-> IF k \in DOMAIN e THEN e[k] ELSE d[k]]

\* {k: v for k, v in d.items() if k not in accounts}
Without(d, accounts) == [k \in (DOMAIN d) \ accounts |-> d[k]]

\* the members of a list
Range(s) == {s[i] : i \in DOMAIN s}

\* the lists of length 0..n over S
ListsUpTo(S, n) == UNION {[1..m -> S] : m \in 0..n}

(***************************************************************************)
(* AccountInfo                                                             *)
(***************************************************************************)
AccountInfo(hub, account, hostname, is_default, is_current) ==
    [hub |-> hub,
     account |-> IF Falsy(account) THEN hub ELSE account,
     hostname |-> hostname,
     is_default |-> is_default,
     is_current |-> is_current]

\* to_json with the record keyed by its hub instead of its account
to_json_keyed_by_hub(info) ==
    [k \in {info.hub} |->
        [hub |-> info.hub, account |-> info.account, hostname |-> info.hostname]]

\* to_json that writes the whole __dict__, the derived flags included
to_json_with_flags(info) == [k \in {info.account} |-> info]

\* {self.account: {hub, account, hostname}}: the derived flags are dropped
to_json(info) ==
    [k \in {info.account} |->
        [hub |-> info.hub, account |-> info.account, hostname |-> info.hostname]]

(***************************************************************************)
(* AccountStorage.  Each operation takes the file content it loads and     *)
(* yields the file content it leaves (and its return value).               *)
(***************************************************************************)
\* a process that is in no store operation
NoLoad == [none |-> TRUE]

\* a store file that does not parse as JSON (the missing file is EmptyDict)
Unreadable == [unreadable |-> TRUE]

\* JsonHelper.read(file, strict=False): a missing or unreadable file reads as {}
_load(f) == IF f = Unreadable THEN EmptyDict ELSE f

_accounts(data) == Get(data, "_accounts", EmptyDict)

_lookup(key, data) == Get(data, key, None)

get_default(data) == _lookup("_default", data)

get_current(data) == _lookup("_current", data)

_to_account_info(acc, data) ==
    AccountInfo(acc.hub, acc.account, acc.hostname,
                acc.account = get_default(data),
                acc.account = get_current(data))

\* the file content after _dump: a None argument keeps what is loaded
_dump(f, Accounts, Current, Default) ==
    LET data == _load(f)
    IN  [_accounts |-> IF Accounts = NoDict THEN _accounts(data) ELSE Accounts.dict,
         _current  |-> IF Current = None THEN get_current(data) ELSE Current,
         _default  |-> IF Default = None THEN get_default(data) ELSE Default]

\* create_or_update that passes '' where the code passes None, so that a call
\* without connect clears the current pointer
create_or_update_clearing(f, account, connect) ==
    LET data == _load(f)
        accounts == Merge(_accounts(data), to_json(account))
    IN  _dump(f, SomeDict(accounts),
              IF connect THEN account.account ELSE "",
              IF account.is_default THEN account.account ELSE None)

create_or_update(f, account, connect) ==
    LET data == _load(f)
        accounts == Merge(_accounts(data), to_json(account))
    IN  _dump(f, SomeDict(accounts),
              IF connect THEN account.account ELSE None,
              IF account.is_default THEN account.account ELSE None)

\* find without the test for an empty key
find_any_key(f, account) ==
    LET data == _load(f)
    IN  IF account \in DOMAIN _accounts(data)
        THEN _to_account_info(_accounts(data)[account], data)
        ELSE NoInfo

find(f, account) ==
    IF Falsy(account) THEN NoInfo
    ELSE LET data == _load(f)
         IN  IF account \in DOMAIN _accounts(data)
             THEN _to_account_info(_accounts(data)[account], data)
             ELSE NoInfo

\* the records list() returns, as a set: a JSON object carries no order
list(f) ==
    LET data == _load(f)
    IN  {_to_account_info(_accounts(data)[k], data) : k \in DOMAIN _accounts(data)}

\* remove that clears the default pointer only
remove_keeping_current(f, accounts) ==
    LET data == _load(f)
        _default == get_default(data)
    IN  _dump(f, SomeDict(Without(_accounts(data), Range(accounts))),
              None,
              IF _default \in Range(accounts) THEN "" ELSE _default)

\* the file content remove(accounts) leaves; accounts is a list of names
remove(f, accounts) ==
    LET data == _load(f)
        _default == get_default(data)
        _current == get_current(data)
    IN  _dump(f, SomeDict(Without(_accounts(data), Range(accounts))),
              IF _current \in Range(accounts) THEN "" ELSE _current,
              IF _default \in Range(accounts) THEN "" ELSE _default)

\* the pair remove(accounts) returns
remove_result(f, accounts) ==
    LET data == _load(f)
    IN  <<get_default(data) \in Range(accounts), get_current(data) \in Range(accounts)>>

\* FileHelper.is_writable(file) is the caller's environment: writable
empty(f, writable) ==
    IF writable THEN _dump(f, SomeDict(EmptyDict), "", "") ELSE f

\* set_default that also empties the current pointer
set_default_clearing_current(f, account) == _dump(f, NoDict, "", account)

set_default(f, account) == _dump(f, NoDict, None, account)

set_current(f, account) == _dump(f, NoDict, account, None)

(***************************************************************************)
(* A running handler.  c.file is the store file, c.trace what the handler  *)
(* has done so far, c.exit the exit code once it has called sys.exit (None *)
(* while it runs), c.calls how many calls that can fail it has made,       *)
(* c.fails which of those calls the environment makes fail, and            *)
(* c.installed whether the VPN client binary is in place.                  *)
(***************************************************************************)
\* max_retries of the two loop_interval calls of lease_vpn_ip
MaxRetries == 5

\* the session status lease_vpn_ip waits for
SessionEstablished == "Connection Completed (Session Established)"

\* what vpn_status can answer: nothing, a status that is not the marker (one
\* of them a prefix of it), or the marker
Statuses == {None, "Connection Completed", SessionEstablished}

\* what get_vpn_ip can answer: nothing, or the addresses of the interface
Addresses == {None, "10.0.0.2"}

\* what the environment answers to the successive polls of a handler: status[i]
\* to the i-th session-status poll and ip[i] to the i-th address poll; a poll
\* past the end of the list is answered with nothing
NoPolls == [status |-> << >>, ip |-> << >>]

\* the i-th answer of a list of answers
At(answers, i) == IF i \in DOMAIN answers THEN answers[i] ELSE None

\* one write of the store file, as an entry of trace
DumpEvent(f) == [ev |-> "dump", data |-> f]

Begin(f, inst, fails) ==
    [file |-> f, installed |-> inst, trace |-> << >>, exit |-> None,
     calls |-> 0, fails |-> fails, polls |-> NoPolls]

\* the same handler in an environment that answers its polls as polls says
WithPolls(c, polls) == [c EXCEPT !.polls = polls]

Live(c) == c.exit = None

\* the handler does something the outside world sees
Emit(c, e) == IF Live(c) THEN [c EXCEPT !.trace = Append(@, e)] ELSE c

\* JsonHelper.dump(self._account_file, data)
Write(c, f) ==
    IF Live(c) THEN [c EXCEPT !.file = f, !.trace = Append(@, DumpEvent(f))] ELSE c

ExitEvent(code) == [ev |-> "exit", code |-> code]

\* sys.exit(code)
Exit(c, code) ==
    IF Live(c) THEN [c EXCEPT !.exit = code, !.trace = Append(@, ExitEvent(code))] ELSE c

\* whether the next call that can fail succeeds
NextOk(c) == (c.calls + 1) \notin c.fails

Called(c) == [c EXCEPT !.calls = @ + 1]

\* VpnCmdExecutor.exec_command: runs the management commands on params; a
\* failure ends the process unless the call is silent
exec_command(c, commands, params, silent) ==
    IF ~Live(c) THEN c
    ELSE LET ok == NextOk(c)
             c1 == Emit(Called(c), [ev |-> "exec_command", commands |-> commands,
                                    params |-> params, ok |-> ok])
         IN  IF ok \/ silent THEN c1 ELSE Exit(c1, "COMMAND_FAILED")

\* self.device.unix_service.enable / disable / stop
unix_service_enable(c) == Emit(c, [ev |-> "enable"])

unix_service_disable(c) == Emit(c, [ev |-> "disable"])

unix_service_stop(c) == Emit(c, [ev |-> "stop"])

\* self.device.unix_service.restart: `systemctl restart`, not silent
unix_service_restart(c) ==
    IF ~Live(c) THEN c
    ELSE LET ok == NextOk(c)
             c1 == Emit(Called(c), [ev |-> "restart", ok |-> ok])
         IN  IF ok THEN c1 ELSE Exit(c1, "COMMAND_FAILED")

\* ClientOpts.account_to_nic
account_to_nic(account) == [prefix |-> "vpn_", account |-> account]

\* self.device.ip_resolver.release_ip / cleanup_zombie
release_ip(c, account, nic) == Emit(c, [ev |-> "release_ip", account |-> account, nic |-> nic])

cleanup_zombie(c, nic) == Emit(c, [ev |-> "cleanup_zombie", nic |-> nic])

\* vpn_status: no command for an empty account; otherwise AccountStatusGet
\* (silent), whose Session Status field, or None when anything fails, is answer
vpn_status(c, vpn_acc, answer) ==
    IF Falsy(vpn_acc) THEN [c |-> c, status |-> None]
    ELSE [c |-> Emit(c, [ev |-> "AccountStatusGet", account |-> vpn_acc,
                         status |-> answer]),
          status |-> answer]

\* self.device.ip_resolver.get_vpn_ip(nic): the addresses of nic, or None
get_vpn_ip(c, nic, answer) ==
    [c |-> Emit(c, [ev |-> "get_vpn_ip", nic |-> nic, ip |-> answer]), ip |-> answer]

\* self.device.ip_resolver.lease_ip(account, nic, daemon=False)
lease_ip(c, account, nic) ==
    Emit(c, [ev |-> "lease_ip", account |-> account, nic |-> nic])

\* wait_session that takes any status text for an established session
RECURSIVE wait_session_any_status(_, _, _)
wait_session_any_status(c, account, i) ==
    IF ~Live(c) THEN c
    ELSE IF i > MaxRetries
         THEN Exit(c, "Unable connect VPN. Please check log for more detail")
         ELSE LET r == vpn_status(c, account, At(c.polls.status, i))
              IN  IF r.status # None THEN r.c
                  ELSE wait_session_any_status(r.c, account, i + 1)

\* the first loop_interval of lease_vpn_ip from its i-th poll on: poll the
\* session status until it is the marker, at most MaxRetries times
RECURSIVE wait_session(_, _, _)
wait_session(c, account, i) ==
    IF ~Live(c) THEN c
    ELSE IF i > MaxRetries
         THEN Exit(c, "Unable connect VPN. Please check log for more detail")
         ELSE LET r == vpn_status(c, account, At(c.polls.status, i))
              IN  IF r.status = SessionEstablished THEN r.c
                  ELSE wait_session(r.c, account, i + 1)

\* wait_ip that polls once more than its budget
RECURSIVE wait_ip_extra_poll(_, _, _)
wait_ip_extra_poll(c, nic, i) ==
    IF ~Live(c) THEN c
    ELSE IF i > MaxRetries + 1 THEN Exit(c, "Unable lease VPN IP")
         ELSE LET r == get_vpn_ip(c, nic, At(c.polls.ip, i))
              IN  IF r.ip # None THEN r.c ELSE wait_ip_extra_poll(r.c, nic, i + 1)

\* the second loop_interval of lease_vpn_ip from its i-th poll on: poll the
\* interface until it has an address, at most MaxRetries times
RECURSIVE wait_ip(_, _, _)
wait_ip(c, nic, i) ==
    IF ~Live(c) THEN c
    ELSE IF i > MaxRetries THEN Exit(c, "Unable lease VPN IP")
         ELSE LET r == get_vpn_ip(c, nic, At(c.polls.ip, i))
              IN  IF r.ip # None THEN r.c ELSE wait_ip(r.c, nic, i + 1)

\* lease_vpn_ip: wait for the session, then kick one lease and wait for the IP
lease_vpn_ip(c, account) ==
    LET c0 == Emit(c, [ev |-> "lease_vpn_ip", account |-> account])
        c1 == wait_session(c0, account, 1)
        nic == account_to_nic(account)
    IN  wait_ip(lease_ip(c1, account, nic), nic, 1)

\* lease_vpn_service that restarts the service before it enables it
lease_vpn_service_restart_first(c, is_enable, is_restart, is_lease_ip, account) ==
    LET c0 == Emit(c, [ev |-> "lease_vpn_service", is_enable |-> is_enable,
                       is_restart |-> is_restart, is_lease_ip |-> is_lease_ip,
                       account |-> account])
        c1 == IF is_restart THEN unix_service_restart(c0) ELSE c0
        c2 == IF is_enable THEN unix_service_enable(c1) ELSE c1
    IN  IF is_lease_ip /\ ~Falsy(account) THEN lease_vpn_ip(c2, account) ELSE c2

lease_vpn_service(c, is_enable, is_restart, is_lease_ip, account) ==
    LET c0 == Emit(c, [ev |-> "lease_vpn_service", is_enable |-> is_enable,
                       is_restart |-> is_restart, is_lease_ip |-> is_lease_ip,
                       account |-> account])
        c1 == IF is_enable THEN unix_service_enable(c0) ELSE c0
        c2 == IF is_restart THEN unix_service_restart(c1) ELSE c1
    IN  IF is_lease_ip /\ ~Falsy(account) THEN lease_vpn_ip(c2, account) ELSE c2

_cleanup_zombie_vpn(c) ==
    cleanup_zombie(Emit(c, [ev |-> "kill_by_process"]), account_to_nic(""))

\* shutdown_vpn that stops the service before it disables it
shutdown_vpn_stop_first(c, is_stop, is_disable) ==
    LET c0 == Emit(c, [ev |-> "shutdown_vpn", is_stop |-> is_stop, is_disable |-> is_disable])
        c1 == IF is_stop THEN unix_service_stop(c0) ELSE c0
        c2 == IF is_disable THEN unix_service_disable(c1) ELSE c1
    IN  _cleanup_zombie_vpn(c2)

shutdown_vpn(c, is_stop, is_disable) ==
    LET c0 == Emit(c, [ev |-> "shutdown_vpn", is_stop |-> is_stop, is_disable |-> is_disable])
        c1 == IF is_disable THEN unix_service_disable(c0) ELSE c0
        c2 == IF is_stop THEN unix_service_stop(c1) ELSE c1
    IN  _cleanup_zombie_vpn(c2)

\* do_connect that issues the management command before it validates the account
do_connect_command_first(c, account) ==
    LET c0 == exec_command(c, <<"AccountConnect">>, account, FALSE)
    IN  IF Falsy(account) THEN Exit(c0, "INVALID_ARGUMENT")
        ELSE LET acc == find(c0.file, account)
             IN  IF acc = NoInfo THEN Exit(c0, "VPN_ACCOUNT_NOT_FOUND")
                 ELSE lease_vpn_service(Write(c0, create_or_update(c0.file, acc, TRUE)),
                                        acc.is_default, acc.is_default, ~acc.is_default,
                                        acc.account)

\* do_connect that leases an IP for every account, the default one included
do_connect_lease_always(c, account) ==
    IF Falsy(account) THEN Exit(c, "INVALID_ARGUMENT")
    ELSE LET acc == find(c.file, account)
         IN  IF acc = NoInfo THEN Exit(c, "VPN_ACCOUNT_NOT_FOUND")
             ELSE LET c1 == Write(c, create_or_update(c.file, acc, TRUE))
                      c2 == exec_command(c1, <<"AccountConnect">>, account, FALSE)
                  IN  lease_vpn_service(c2, acc.is_default, acc.is_default, TRUE,
                                        acc.account)

do_connect(c, account) ==
    IF Falsy(account) THEN Exit(c, "INVALID_ARGUMENT")
    ELSE LET acc == find(c.file, account)
         IN  IF acc = NoInfo THEN Exit(c, "VPN_ACCOUNT_NOT_FOUND")
             ELSE LET c1 == Write(c, create_or_update(c.file, acc, TRUE))
                      c2 == exec_command(c1, <<"AccountConnect">>, account, FALSE)
                  IN  lease_vpn_service(c2, acc.is_default, acc.is_default,
                                        ~acc.is_default, acc.account)

\* the loop of do_delete from its i-th account on, then the shutdown
RECURSIVE do_delete_from(_, _, _, _, _, _)
do_delete_from(c, accounts, silent, i, is_disable, is_stop) ==
    IF i > Len(accounts) THEN shutdown_vpn(c, is_stop, is_disable)
    ELSE LET acc == accounts[i]
             c1 == exec_command(c, <<"AccountDisconnect", "AccountDelete", "NicDelete">>,
                                acc, silent)
             removed == remove_result(c1.file, <<acc>>)
             c2 == Write(c1, remove(c1.file, <<acc>>))
         IN  do_delete_from(c2, accounts, silent, i + 1,
                            removed[1] \/ is_disable, removed[2] \/ is_stop)

\* do_delete that unpacks the pair of remove in the wrong order
RECURSIVE do_delete_swapped_from(_, _, _, _, _, _)
do_delete_swapped_from(c, accounts, silent, i, is_disable, is_stop) ==
    IF i > Len(accounts) THEN shutdown_vpn(c, is_stop, is_disable)
    ELSE LET acc == accounts[i]
             c1 == exec_command(c, <<"AccountDisconnect", "AccountDelete", "NicDelete">>,
                                acc, silent)
             removed == remove_result(c1.file, <<acc>>)
             c2 == Write(c1, remove(c1.file, <<acc>>))
         IN  do_delete_swapped_from(c2, accounts, silent, i + 1,
                                    removed[2] \/ is_disable, removed[1] \/ is_stop)

do_delete_swapped(c, accounts, silent) ==
    do_delete_swapped_from(c, accounts, silent, 1, FALSE, FALSE)

do_delete(c, accounts, silent) == do_delete_from(c, accounts, silent, 1, FALSE, FALSE)

\* the loop of do_disconnect from its i-th account on: the handler and is_stop
RECURSIVE do_disconnect_from(_, _, _, _, _, _)
do_disconnect_from(c, accounts, i, cur_acc, silent, is_stop) ==
    IF i > Len(accounts) THEN [c |-> c, is_stop |-> is_stop]
    ELSE LET acc == accounts[i]
             c1 == exec_command(c, <<"AccountDisconnect">>, acc, silent)
             c2 == release_ip(c1, acc, account_to_nic(acc))
             c3 == cleanup_zombie(c2, account_to_nic(acc))
         IN  do_disconnect_from(c3, accounts, i + 1, cur_acc, silent,
                                acc = cur_acc \/ is_stop)

\* do_disconnect that shuts the service down once per listed current account
RECURSIVE do_disconnect_eager_from(_, _, _, _, _, _)
do_disconnect_eager_from(c, accounts, i, cur_acc, silent, must_disable_service) ==
    IF i > Len(accounts) THEN c
    ELSE LET acc == accounts[i]
             c1 == exec_command(c, <<"AccountDisconnect">>, acc, silent)
             c2 == release_ip(c1, acc, account_to_nic(acc))
             c3 == cleanup_zombie(c2, account_to_nic(acc))
             c4 == IF acc = cur_acc
                   THEN shutdown_vpn(Write(c3, set_current(c3.file, "")),
                                     TRUE, must_disable_service)
                   ELSE c3
         IN  do_disconnect_eager_from(c4, accounts, i + 1, cur_acc, silent,
                                      must_disable_service)

do_disconnect_eager(c, accounts, must_disable_service, silent) ==
    do_disconnect_eager_from(c, accounts, 1, get_current(_load(c.file)), silent,
                             must_disable_service)

do_disconnect(c, accounts, must_disable_service, silent) ==
    LET cur_acc == get_current(_load(c.file))
        loop == do_disconnect_from(c, accounts, 1, cur_acc, silent, FALSE)
    IN  IF loop.is_stop
        THEN shutdown_vpn(Write(loop.c, set_current(loop.c.file, "")),
                          TRUE, must_disable_service)
        ELSE loop.c

\* set_default_acc that does not clear the old default before it sets the new one
set_default_acc_no_clear(c, account) ==
    LET def_acc == get_default(_load(c.file))
        c1 == IF ~Falsy(def_acc)
              THEN exec_command(c, <<"AccountStartupRemove">>, def_acc, FALSE)
              ELSE c
    IN  Write(c1, set_default(c1.file, account))

\* `slient=True` is no parameter of exec_command: the call is not silent
set_default_acc(c, account) ==
    LET def_acc == get_default(_load(c.file))
        c1 == IF ~Falsy(def_acc)
              THEN LET c0 == exec_command(c, <<"AccountStartupRemove">>, def_acc, FALSE)
                   IN  Write(c0, set_default(c0.file, ""))
              ELSE c
    IN  Write(c1, set_default(c1.file, account))

disconnect_current_vpn(c, must_disable_service, silent) ==
    LET account == get_current(_load(c.file))
    IN  IF Falsy(account) THEN c
        ELSE do_disconnect(c, <<account>>, must_disable_service, silent)

(***************************************************************************)
(* DeviceResolver (src/client/python/src/client/device_resolver.py).  The  *)
(* host is what the probes can see of it: env.systemd and env.procd say    *)
(* whether `pidof systemd` and `pidof procd` find a process, env.dhclient  *)
(* and env.resolvconf whether the tools are installed, and                 *)
(* env.active[name] is what the status pipeline of systemctl prints for    *)
(* the service name.                                                       *)
(***************************************************************************)
\* class ServiceStatus
RUNNING == "active(running)"
EXITED == "active(exited)"
WAITING == "active(waiting)"
INACTIVE == "inactive(dead)"
UNKNOWN == "unknown"
ServiceStatus == <<RUNNING, EXITED, WAITING, INACTIVE, UNKNOWN>>

\* parse that falls back to the first member
parse_first_member(status) ==
    LET status_ == SelectSeq(ServiceStatus, LAMBDA e : e = status)
    IN  IF Len(status_) > 0 THEN status_[1] ELSE ServiceStatus[1]

\* ServiceStatus.parse: the member whose value is the text, UNKNOWN if none
parse(status) ==
    LET status_ == SelectSeq(ServiceStatus, LAMBDA e : e = status)
    IN  IF Len(status_) > 0 THEN status_[1] ELSE UNKNOWN

\* class UnixServiceType
SYSTEMD == "systemd"
PROCD == "procd"

\* class IPResolverType
DHCLIENT == "dhclient"

\* class DNSResolverType, its members in the order of their definition
DNSResolverType ==
    <<"connman", "dnsmasq", "systemd-resolved", "NetworkManager", "resolvconf",
      "unknown">>
RESOLVCONF == DNSResolverType[5]

\* what the status pipeline of systemctl prints for a service
StatusTexts == {RUNNING, INACTIVE, ""}

\* the hosts
Envs ==
    [systemd : BOOLEAN, procd : BOOLEAN, dhclient : BOOLEAN,
     resolvconf : BOOLEAN, active : [Range(DNSResolverType) -> StatusTexts]]

\* what a call gives: the value it returns, or the message of the
\* NotImplementedError it raises
Returned(value) == [raised |-> FALSE, message |-> << >>, value |-> value]
Raised(message) == [raised |-> TRUE, message |-> message, value |-> None]

\* DeviceResolver.__init__: no controller is set
DeviceResolver == [service |-> None, ip_resolver |-> None, dns_resolver |-> None]

\* SystemdService.factory
SystemdService_factory(env) ==
    IF env.systemd THEN Returned(SYSTEMD) ELSE Returned(None)

\* ProcdService.factory
ProcdService_factory(env) ==
    IF env.procd THEN Raised(<<"Not yet supported OpenWRT">>) ELSE Returned(None)

\* DHCPResolver.factory
DHCPResolver_factory(env) ==
    IF env.dhclient THEN Returned(DHCLIENT) ELSE Returned(None)

\* SystemdService.status
status(env, service_name) == parse(env.active[service_name])

\* next((t for t in DNSResolverType if ... is ServiceStatus.RUNNING), None)
RECURSIVE first_running(_, _)
first_running(env, i) ==
    IF i > Len(DNSResolverType) THEN None
    ELSE IF status(env, DNSResolverType[i]) = RUNNING THEN DNSResolverType[i]
    ELSE first_running(env, i + 1)

\* DNSResolver.probe: the kind of the resolver it returns
DNSResolver_probe(env) ==
    LET kind == first_running(env, 1)
        kind2 == IF kind = None /\ env.resolvconf THEN RESOLVCONF ELSE kind
    IN  IF kind2 = None THEN Raised(<<"Unknown DNS resolver">>)
        ELSE Returned(kind2)

\* DeviceResolver.__not_null
__not_null(obj, msg) ==
    IF obj = None THEN Raised(<<"Unknown ", msg>>) ELSE Returned(obj)

\* DeviceResolver.probe on the resolver d: the resolver it leaves, and whether
\* it raised
DeviceResolver_probe(d, env) ==
    LET systemd == SystemdService_factory(env)
        init == IF systemd.value # None THEN systemd ELSE ProcdService_factory(env)
        service == IF init.raised THEN init ELSE __not_null(init.value, "INIT system")
        d1 == [d EXCEPT !.service = service.value]
        ip == __not_null(DHCPResolver_factory(env).value, "IP resolver")
        d2 == [d1 EXCEPT !.ip_resolver = ip.value]
        dns == DNSResolver_probe(env)
        d3 == [d2 EXCEPT !.dns_resolver = dns.value]
    IN  IF service.raised THEN [device |-> d, raised |-> TRUE, message |-> service.message]
        ELSE IF ip.raised THEN [device |-> d1, raised |-> TRUE, message |-> ip.message]
        ELSE IF dns.raised THEN [device |-> d2, raised |-> TRUE, message |-> dns.message]
        ELSE [device |-> d3, raised |-> FALSE, message |-> << >>]

(***************************************************************************)
(* DNSResolver.tweak and rollback_origin.  A file is the list of its       *)
(* lines, a line the list of its parts: <<"nameserver ", ns>> is the line  *)
(* f'nameserver {ns}'.  resolv.system is /etc/resolv.conf (DNS_SYSTEM_FILE),*)
(* a file of its own or a symbolic link to resolv.vpn.conf; resolv.vpn is  *)
(* resolv.vpn.conf (dns_vpn_cfg) and resolv.origin is resolv.origin.conf   *)
(* (dns_origin_cfg).                                                       *)
(***************************************************************************)
\* how many entries the nameserver arguments of the hook have at most
MaxNameServers == 3
\* how many lines the resolver file of the host has at most
MaxResolvLines == 2

\* class DHCPReason
DHCPReason ==
    {"MEDIUM", "PREINIT", "BOUND", "RENEW", "REBIND", "REBOOT", "EXPIRE",
     "FAIL", "STOP", "RELEASE", "NBI", "TIMEOUT"}

\* a comma-separated list of nameservers, as the list of its entries
\* (str.split(',')): the empty string is the list with one empty entry
NameServerArgs ==
    UNION {[1..m -> {"", "n1", "n2"}] : m \in 1..MaxNameServers}

\* the lines of the resolver file of the host
HostLines ==
    {<<"nameserver ", "o1">>, <<"nameserver ", "o2">>, <<"search ", "lan">>}

\* no such file / a file with these lines / a symbolic link to resolv.vpn.conf
NoFile == [exists |-> FALSE, link |-> FALSE, lines |-> << >>]
FileOf(lines) == [exists |-> TRUE, link |-> FALSE, lines |-> lines]
LinkToVpnCfg == [exists |-> TRUE, link |-> TRUE, lines |-> << >>]

\* before the VPN client touches the resolver: the host's file, no cache files
ResolvFiles ==
    [system |-> FileOf(<< <<"nameserver ", "o1">> >>), vpn |-> NoFile,
     origin |-> NoFile]

\* FileHelper.read_file_by_line(DNSResolver.DNS_SYSTEM_FILE), following the link
SystemLines(r) == IF r.system.link THEN r.vpn.lines ELSE r.system.lines

\* FileHelper.is_file_readable
is_file_readable(f) == f.exists

\* FileHelper.backup(src, DNS_SYSTEM_FILE): the lines go to the system file;
\* through says whether a symbolic link there is written through or replaced,
\* is_remove whether the source is removed afterwards
backup_to_system(r, is_remove, through) ==
    LET r1 == IF r.system.link /\ through
              THEN [r EXCEPT !.vpn = FileOf(r.origin.lines)]
              ELSE [r EXCEPT !.system = FileOf(r.origin.lines)]
    IN  IF is_remove THEN [r1 EXCEPT !.origin = NoFile] ELSE r1

\* FileHelper.backup(DNS_SYSTEM_FILE, dns_origin_cfg, remove=False)
backup_system(r) == [r EXCEPT !.origin = FileOf(SystemLines(r))]

\* grep(lines, r'nameserver .+')
grep_nameserver(lines) ==
    SelectSeq(lines, LAMBDA l : Len(l) = 2 /\ l[1] = "nameserver " /\ l[2] # "")

\* seq[0:n]
Slice(seq, n) == SubSeq(seq, 1, IF n < Len(seq) THEN n ELSE Len(seq))

\* [f'nameserver {ns}' for ns in new_name_servers.split(',')[0:2] if ns]
new_nameserver_lines(new_name_servers) ==
    LET first == Slice(new_name_servers, 2)
        kept == SelectSeq(first, LAMBDA ns : ns # "")
    IN  [i \in DOMAIN kept |-> <<"nameserver ", kept[i]>>]

\* f'### Generated by VPN service\n{content}\n' with content the lines joined
Generated(nameservers) ==
    << <<"### Generated by VPN service">> >> \o
    (IF nameservers = << >> THEN << <<"">> >> ELSE nameservers)

\* tweak that skips only an unchanged RENEW
tweak_preinit_writes(r, reason, new_name_servers, old_name_servers) ==
    IF reason = "RENEW" /\ new_name_servers = old_name_servers
    THEN r
    ELSE LET r1 == IF ~is_file_readable(r.origin) THEN backup_system(r) ELSE r
             origins == grep_nameserver(r1.origin.lines)
             news == new_nameserver_lines(new_name_servers)
             nameservers == news \o Slice(origins, 3 - Len(news))
         IN  [r1 EXCEPT !.vpn = FileOf(Generated(nameservers)),
                        !.system = LinkToVpnCfg]

\* tweak that puts the original nameservers first
tweak_origins_first(r, reason, new_name_servers, old_name_servers) ==
    IF reason = "PREINIT" \/ (reason = "RENEW" /\ new_name_servers = old_name_servers)
    THEN r
    ELSE LET r1 == IF ~is_file_readable(r.origin) THEN backup_system(r) ELSE r
             origins == grep_nameserver(r1.origin.lines)
             news == new_nameserver_lines(new_name_servers)
             nameservers == Slice(origins, 3 - Len(news)) \o news
         IN  [r1 EXCEPT !.vpn = FileOf(Generated(nameservers)),
                        !.system = LinkToVpnCfg]

\* tweak that backs the system file up on every call
tweak_backup_always(r, reason, new_name_servers, old_name_servers) ==
    IF reason = "PREINIT" \/ (reason = "RENEW" /\ new_name_servers = old_name_servers)
    THEN r
    ELSE LET r1 == backup_system(r)
             origins == grep_nameserver(r1.origin.lines)
             news == new_nameserver_lines(new_name_servers)
             nameservers == news \o Slice(origins, 3 - Len(news))
         IN  [r1 EXCEPT !.vpn = FileOf(Generated(nameservers)),
                        !.system = LinkToVpnCfg]

\* DNSResolver.tweak
tweak(r, reason, new_name_servers, old_name_servers) ==
    IF reason = "PREINIT" \/ (reason = "RENEW" /\ new_name_servers = old_name_servers)
    THEN r
    ELSE LET r1 == IF ~is_file_readable(r.origin) THEN backup_system(r) ELSE r
             origins == grep_nameserver(r1.origin.lines)
             news == new_nameserver_lines(new_name_servers)
             nameservers == news \o Slice(origins, 3 - Len(news))
         IN  [r1 EXCEPT !.vpn = FileOf(Generated(nameservers)),
                        !.system = LinkToVpnCfg]

\* rollback_origin that drops the backup without copying it back
rollback_origin_drop(r, is_remove, through) ==
    IF ~is_file_readable(r.origin) THEN r
    ELSE [r EXCEPT !.origin = NoFile]

\* DNSResolver.rollback_origin
rollback_origin(r, is_remove, through) ==
    IF ~is_file_readable(r.origin) THEN r
    ELSE backup_to_system(r, is_remove, through)

(***************************************************************************)
(* The service identity: VPNClientExecutor._standard_service_opt and the   *)
(* service cache file (vpn.service.cache).  A service name is the pair of  *)
(* its prefix and its suffix; a binary name is the list of its parts       *)
(* between '-', the empty list for no name.                                *)
(***************************************************************************)
\* AppEnv.BRAND
BRAND == "qwe"

\* device.unix_service.standard_service_dir
StandardServiceDir == "/etc/systemd/system"

UnixServiceOpts(service_dir, service_name) ==
    [service_dir |-> service_dir, service_name |-> service_name]

\* the environment of a call: EnvHelper.binary_name() and os.environ[VPN_CORP_ENV]
BinaryNames == {<< >>, <<"qwe", "cli">>, <<"acme", "vpn", "cli">>}
CorpEnvs == {None, "", "corp"}

\* ClientOpts.vpn_service_name
vpn_service_name(binary, corp_env) ==
    LET brand == IF binary # << >> THEN binary[1] ELSE BRAND
    IN  <<IF Falsy(corp_env) THEN brand ELSE corp_env, "-vpn">>

\* the service names and directories of the command line options
ServiceNames == {vpn_service_name(<< >>, None), <<"corp", "-vpn">>, <<"acme", "-vpn">>}
ServiceDirs == {None, "", "/opt/svc", "/usr/local/svc"}

\* no `svc_opts` argument
NoOpts == [none |-> TRUE]
SomeOpts(o) == [none |-> FALSE, opts |-> o]

\* the service cache file: absent, not JSON, or the JSON of a dict
NoCache == [kind |-> "missing"]
CorruptCache == [kind |-> "corrupt"]
CacheOf(data) == [kind |-> "json", data |-> data]

\* what a strict JsonHelper.read can do with a file that is not JSON
CorruptReads == {"FileNotFoundError", "JSONDecodeError", "{}"}

\* JsonHelper.read(file): strict, a missing file raises FileNotFoundError
JsonHelper_read(cache, corrupt_read) ==
    CASE cache.kind = "json" -> Returned(cache.data)
      [] cache.kind = "missing" -> Raised(<<"FileNotFoundError">>)
      [] OTHER -> IF corrupt_read = "{}" THEN Returned(EmptyDict)
                  ELSE Raised(<<corrupt_read>>)

\* `x or standard_service_dir`
OrStandardDir(x) == IF Falsy(x) THEN StandardServiceDir ELSE x

_standard_service_opt(svc_opts, cache, binary, corp_env, corrupt_read) ==
    IF svc_opts # NoOpts
    THEN Returned(UnixServiceOpts(OrStandardDir(svc_opts.opts.service_dir),
                                  svc_opts.opts.service_name))
    ELSE LET data == JsonHelper_read(cache, corrupt_read)
         IN  IF ~data.raised
             THEN Returned(UnixServiceOpts(OrStandardDir(Get(data.value, "service_dir", None)),
                                           Get(data.value, "service_name", None)))
             ELSE IF data.message = <<"FileNotFoundError">>
                  THEN Returned(UnixServiceOpts(StandardServiceDir,
                                                vpn_service_name(binary, corp_env)))
                  ELSE data

\* _dump_cache_service
_dump_cache_service(svc_opts) == CacheOf(svc_opts)

(***************************************************************************)
(* Two processes on one store file.  A store operation is not atomic: it   *)
(* loads the file, computes, and replaces the file; another process can    *)
(* write in between.  loads holds what each process has loaded and not yet *)
(* written back, writes the operations that have written, in order.        *)
(***************************************************************************)
\* the most writes of one run
MaxWrites == 3

Procs == {"p", "q"}

\* the operations the two processes call
RaceCalls ==
    {[name |-> "set_default", account |-> "a"],
     [name |-> "set_default", account |-> ""],
     [name |-> "set_current", account |-> "h"],
     [name |-> "create_or_update", info |-> AccountInfo("h", "a", "x", FALSE, FALSE),
      connect |-> FALSE]}

\* a process between its load and its write; stale when the file was written since
Loaded(call, data) == [none |-> FALSE, call |-> call, data |-> data, stale |-> FALSE]

\* _dump(data=data, ...) that writes the pointers it is given and loads nothing
race_dump_given_only(data, now, Accounts, Current, Default) ==
    [_accounts |-> IF Accounts = NoDict THEN EmptyDict ELSE Accounts.dict,
     _current  |-> Current,
     _default  |-> Default]

\* _dump on the data loaded before, now being what the file holds when it
\* writes: `data or self._load()` reads the file again where data is {}; the
\* pointers are looked up after data['_accounts'] is set, in data itself
race_dump(data, now, Accounts, Current, Default) ==
    [_accounts |-> IF Accounts = NoDict
                   THEN _accounts(IF data = EmptyDict THEN now ELSE data)
                   ELSE Accounts.dict,
     _current  |-> IF Current = None THEN get_current(data) ELSE Current,
     _default  |-> IF Default = None THEN get_default(data) ELSE Default]

\* the file a call leaves that loaded data before and writes while the file holds now
race_write(call, data, now) ==
    CASE call.name = "set_default" -> race_dump(data, now, NoDict, None, call.account)
      [] call.name = "set_current" -> race_dump(data, now, NoDict, call.account, None)
      [] OTHER ->
           LET again == IF data = EmptyDict THEN now ELSE data
               accounts == Merge(_accounts(again), to_json(call.info))
           IN  race_dump(again, now, SomeDict(accounts),
                         IF call.connect THEN call.info.account ELSE None,
                         IF call.info.is_default THEN call.info.account ELSE None)

(***************************************************************************)
(* The store on its own: any caller, any order of AccountStorage calls.    *)
(***************************************************************************)
\* no handler is running
IdleOp == [name |-> "idle"]
Idle == op = IdleOp

\* the state before the first call: no store file yet, the client installed
Init ==
    /\ file = EmptyDict
    /\ op = IdleOp
    /\ ret = None
    /\ trace = << >>
    /\ installed = TRUE
    /\ pid_files = << >>
    /\ pid_file = None
    /\ device = DeviceResolver
    /\ resolv = ResolvFiles
    /\ service_cache = CacheOf(UnixServiceOpts(StandardServiceDir, vpn_service_name(<< >>, None)))
    /\ loads = [p \in Procs |-> NoLoad]
    /\ writes = << >>

\* the handler has returned (or its process has exited): the next call can start
Return ==
    /\ ~Idle
    /\ op' = IdleOp
    /\ ret' = None
    /\ trace' = << >>
    /\ UNCHANGED <<file, installed, pid_files, pid_file, device, resolv, service_cache, loads, writes>>

\* a call of an AccountStorage operation by an idle caller: o is the call, f
\* the file content it leaves, r what it returns, wrote whether it wrote the file
StoreCall(o, f, r, wrote) ==
    /\ file' = f
    /\ op' = o
    /\ ret' = r
    /\ trace' = IF wrote THEN <<DumpEvent(f)>> ELSE << >>
    /\ UNCHANGED <<installed, pid_files, pid_file, device, resolv, service_cache, loads, writes>>

CreateOrUpdate ==
    /\ Idle
    /\ \E hub \in Hubs, account \in AccountArgs, hostname \in Hostnames,
       is_default \in BOOLEAN, connect \in BOOLEAN :
        LET info == AccountInfo(hub, account, hostname, is_default, FALSE)
        IN  StoreCall([name |-> "create_or_update", info |-> info, connect |-> connect],
                      create_or_update(file, info, connect), info, TRUE)

Find ==
    /\ Idle
    /\ \E account \in PointerArgs \cup {None} :
        StoreCall([name |-> "find", account |-> account],
                  file, find(file, account), FALSE)

List ==
    /\ Idle
    /\ StoreCall([name |-> "list"], file, list(file), FALSE)

Remove ==
    /\ Idle
    /\ \E accounts \in ListsUpTo(Keys, MaxList) :
        StoreCall([name |-> "remove", accounts |-> accounts],
                  remove(file, accounts), remove_result(file, accounts), TRUE)

Empty ==
    /\ Idle
    /\ \E writable \in BOOLEAN :
        StoreCall([name |-> "empty", writable |-> writable],
                  empty(file, writable), None, writable)

SetDefault ==
    /\ Idle
    /\ \E account \in PointerArgs :
        StoreCall([name |-> "set_default", account |-> account],
                  set_default(file, account), None, TRUE)

SetCurrent ==
    /\ Idle
    /\ \E account \in PointerArgs :
        StoreCall([name |-> "set_current", account |-> account],
                  set_current(file, account), None, TRUE)

StoreNext ==
    \/ CreateOrUpdate
    \/ Find
    \/ List
    \/ Remove
    \/ Empty
    \/ SetDefault
    \/ SetCurrent

SpecStore == Init /\ [][StoreNext \/ Return]_vars

\* the store file is damaged or deleted behind the program's back
StoreLost ==
    /\ Idle
    /\ file' \in {Unreadable, EmptyDict}
    /\ file' # file
    /\ UNCHANGED <<op, ret, trace, installed, pid_files, pid_file, device, resolv, service_cache, loads, writes>>

\* the store with a file that can get lost
SpecStoreLost == Init /\ [][StoreNext \/ StoreLost \/ Return]_vars

(***************************************************************************)
(* The orchestrator: any caller, any order of VPNClientExecutor and        *)
(* AccountStorage calls.                                                   *)
(***************************************************************************)
\* which of a handler's calls that can fail do fail: any choice
Oracles == SUBSET (1..MaxCalls)

\* every way the environment can answer MaxRetries polls of each kind
PollEnvs ==
    [status : [1..MaxRetries -> Statuses], ip : [1..MaxRetries -> Addresses]]

\* three of them: the session and the address are there at once, the session
\* is never established, the session is established but no address comes
SomePolls ==
    {[status |-> [i \in 1..MaxRetries |-> st], ip |-> [i \in 1..MaxRetries |-> ip]] :
        st \in {None, SessionEstablished}, ip \in Addresses}
    \ {[status |-> [i \in 1..MaxRetries |-> None],
         ip |-> [i \in 1..MaxRetries |-> "10.0.0.2"]]}

\* a call of a handler: o is the call, c the handler when it has ended
Handler(o, c, value) ==
    /\ file' = c.file
    /\ op' = o
    /\ ret' = [exit |-> c.exit, value |-> value]
    /\ trace' = c.trace
    /\ installed' = c.installed
    /\ UNCHANGED <<pid_files, pid_file, device, resolv, service_cache, loads, writes>>

DoConnect ==
    /\ Idle
    /\ \E account \in PointerArgs \cup {None}, fails \in Oracles, polls \in SomePolls :
        Handler([name |-> "do_connect", account |-> account],
                do_connect(WithPolls(Begin(file, installed, fails), polls), account),
                None)

DoDelete ==
    /\ Idle
    /\ \E accounts \in ListsUpTo(Keys, MaxList), silent \in BOOLEAN, fails \in Oracles :
        Handler([name |-> "do_delete", accounts |-> accounts, silent |-> silent],
                do_delete(Begin(file, installed, fails), accounts, silent), None)

DoDisconnect ==
    /\ Idle
    /\ \E accounts \in ListsUpTo(Keys, MaxList), must_disable_service \in BOOLEAN,
       silent \in BOOLEAN, fails \in Oracles :
        Handler([name |-> "do_disconnect", accounts |-> accounts,
                 must_disable_service |-> must_disable_service, silent |-> silent],
                do_disconnect(Begin(file, installed, fails), accounts, must_disable_service, silent),
                None)

SetDefaultAcc ==
    /\ Idle
    /\ \E account \in PointerArgs \cup {None}, fails \in Oracles :
        Handler([name |-> "set_default_acc", account |-> account],
                set_default_acc(Begin(file, installed, fails), account),
                [AccountStartUpSet |-> account])

DisconnectCurrentVpn ==
    /\ Idle
    /\ \E must_disable_service \in BOOLEAN, silent \in BOOLEAN, fails \in Oracles :
        Handler([name |-> "disconnect_current_vpn",
                 must_disable_service |-> must_disable_service, silent |-> silent],
                disconnect_current_vpn(Begin(file, installed, fails), must_disable_service, silent),
                None)

ExecNext ==
    \/ DoConnect
    \/ DoDelete
    \/ DoDisconnect
    \/ SetDefaultAcc
    \/ DisconnectCurrentVpn

Spec == Init /\ [][StoreNext \/ ExecNext \/ Return]_vars

(***************************************************************************)
(* The service steps on their own: lease_vpn_ip, lease_vpn_service and     *)
(* shutdown_vpn, called with any arguments in any environment.             *)
(***************************************************************************)
LeaseVpnIp ==
    /\ Idle
    /\ \E account \in Names \cup {""}, polls \in PollEnvs :
        Handler([name |-> "lease_vpn_ip", account |-> account, polls |-> polls],
                lease_vpn_ip(WithPolls(Begin(file, installed, {}), polls), account),
                None)

LeaseVpnService ==
    /\ Idle
    /\ \E is_enable \in BOOLEAN, is_restart \in BOOLEAN, is_lease_ip \in BOOLEAN,
          account \in AccountArgs, fails \in Oracles, polls \in SomePolls :
        Handler([name |-> "lease_vpn_service", is_enable |-> is_enable,
                 is_restart |-> is_restart, is_lease_ip |-> is_lease_ip,
                 account |-> account],
                lease_vpn_service(WithPolls(Begin(file, installed, fails), polls),
                                  is_enable, is_restart, is_lease_ip, account),
                None)

ShutdownVpn ==
    /\ Idle
    /\ \E is_stop \in BOOLEAN, is_disable \in BOOLEAN :
        Handler([name |-> "shutdown_vpn", is_stop |-> is_stop, is_disable |-> is_disable],
                shutdown_vpn(Begin(file, installed, {}), is_stop, is_disable), None)

ServiceNext ==
    \/ LeaseVpnIp
    \/ LeaseVpnService
    \/ ShutdownVpn

SpecService == Init /\ [][ServiceNext \/ Return]_vars

(***************************************************************************)
(* VPNPIDHandler.  The candidate PID files are the files .pid_* of the     *)
(* install directory, written by the VPN client; a file is the text it     *)
(* holds, a list of characters.                                            *)
(***************************************************************************)
\* how many candidate PID files there are at most
MaxPidFiles == 2

\* the processes the environment can have alive
Pids == {7, 12}

\* the texts a candidate PID file can hold: nothing, no number, zero, a
\* negative number, PIDs, and a PID after a blank
PidTexts ==
    {<< >>, <<"x">>, <<"0">>, <<"-", "3">>, <<"7">>, <<"1", "2">>, <<" ", "7">>}

Whitespace == {" ", "\n", "\t"}

DigitChars == <<"0", "1", "2", "3", "4", "5", "6", "7", "8", "9">>

IsDigit(ch) == \E i \in DOMAIN DigitChars : DigitChars[i] = ch

DigitOf(ch) == (CHOOSE i \in DOMAIN DigitChars : DigitChars[i] = ch) - 1

\* str.strip of the text int() is given
RECURSIVE lstrip(_)
lstrip(text) ==
    IF text # << >> /\ Head(text) \in Whitespace THEN lstrip(Tail(text)) ELSE text

RECURSIVE rstrip(_)
rstrip(text) ==
    IF text # << >> /\ text[Len(text)] \in Whitespace
    THEN rstrip(SubSeq(text, 1, Len(text) - 1))
    ELSE text

\* the number a list of decimal digits denotes
RECURSIVE Decimal(_)
Decimal(digits) ==
    IF digits = << >> THEN 0
    ELSE 10 * Decimal(SubSeq(digits, 1, Len(digits) - 1)) + DigitOf(digits[Len(digits)])

\* int(text) raised ValueError
ValueError == [ok |-> FALSE]

\* Python's int(text): blanks around an optional sign and decimal digits
int(text) ==
    LET s == rstrip(lstrip(text))
        signed == s # << >> /\ Head(s) \in {"-", "+"}
        digits == IF signed THEN Tail(s) ELSE s
    IN  IF digits = << >> \/ \E i \in DOMAIN digits : ~IsDigit(digits[i])
        THEN ValueError
        ELSE [ok |-> TRUE,
              value |-> IF signed /\ Head(s) = "-" THEN 0 - Decimal(digits)
                        ELSE Decimal(digits)]

\* Python's str(n) of a natural number
RECURSIVE str(_)
str(n) ==
    IF n < 10 THEN <<DigitChars[n + 1]>>
    ELSE str(n \div 10) \o <<DigitChars[(n % 10) + 1]>>

\* a list without its i-th element
RemoveAt(s, i) == SubSeq(s, 1, i - 1) \o SubSeq(s, i + 1, Len(s))

\* a list with x put in as its i-th element
InsertAt(s, i, x) == SubSeq(s, 1, i - 1) \o <<x>> \o SubSeq(s, i, Len(s))

\* _check_pid on a file holding text, live being the PIDs of the running
\* processes: the PID it returns and whether it removed the file
_check_pid(text, live) ==
    LET pid == int(text)
    IN  IF ~pid.ok THEN [pid |-> 0, rm |-> TRUE]
        ELSE IF pid.value # 0 /\ pid.value > 0 /\ pid.value \in live
             THEN [pid |-> pid.value, rm |-> FALSE]
             ELSE [pid |-> 0, rm |-> FALSE]

\* _find_pid from the i-th file of the scan on: next() stops the scan at the
\* first file with a PID; the PID and the files that are left
RECURSIVE _find_pid_from(_, _, _)
_find_pid_from(files, i, live) ==
    IF i > Len(files) THEN [pid |-> 0, files |-> files]
    ELSE LET r == _check_pid(files[i], live)
             left == IF r.rm THEN RemoveAt(files, i) ELSE files
         IN  IF r.pid # 0 THEN [pid |-> r.pid, files |-> left]
             ELSE _find_pid_from(left, IF r.rm THEN i ELSE i + 1, live)

_find_pid(files, live) == _find_pid_from(files, 1, live)

\* cleanup: every candidate file and the canonical file are removed
cleanup(files, canonical) == [pid_files |-> << >>, pid_file |-> None]

\* is_running that leaves the files alone when it finds no PID
is_running_no_cleanup(files, canonical, live) ==
    LET found == _find_pid(files, live)
    IN  IF found.pid # 0
        THEN [value |-> TRUE, pid_files |-> found.files, pid_file |-> str(found.pid)]
        ELSE [value |-> FALSE, pid_files |-> found.files, pid_file |-> canonical]

\* is_running: what it returns and the files it leaves
is_running(files, canonical, live) ==
    LET found == _find_pid(files, live)
    IN  IF found.pid # 0
        THEN [value |-> TRUE, pid_files |-> found.files, pid_file |-> str(found.pid)]
        ELSE [value |-> FALSE] @@ cleanup(found.files, canonical)

\* a call on the PID handler: o is the call, r what it returns, files and
\* canonical the PID files it leaves
PidCall(o, r, files, canonical) ==
    /\ op' = o
    /\ ret' = r
    /\ trace' = << >>
    /\ pid_files' = files
    /\ pid_file' = canonical
    /\ UNCHANGED <<file, installed, device, resolv, service_cache, loads, writes>>

\* the VPN client writes one more candidate PID file
PidFileWritten ==
    /\ Idle
    /\ Len(pid_files) < MaxPidFiles
    /\ \E text \in PidTexts, i \in 1..(Len(pid_files) + 1) :
        pid_files' = InsertAt(pid_files, i, text)
    /\ UNCHANGED <<file, op, ret, trace, installed, pid_file, device, resolv, service_cache, loads, writes>>

IsRunning ==
    /\ Idle
    /\ \E live \in SUBSET Pids :
        LET r == is_running(pid_files, pid_file, live)
        IN  PidCall([name |-> "is_running", live |-> live], r.value,
                    r.pid_files, r.pid_file)

CurrentPid ==
    /\ Idle
    /\ \E live \in SUBSET Pids :
        LET found == _find_pid(pid_files, live)
        IN  PidCall([name |-> "current_pid", live |-> live], found.pid,
                    found.files, pid_file)

PidCleanup ==
    /\ Idle
    /\ LET r == cleanup(pid_files, pid_file)
       IN  PidCall([name |-> "cleanup"], None, r.pid_files, r.pid_file)

PidNext ==
    \/ PidFileWritten
    \/ IsRunning
    \/ CurrentPid
    \/ PidCleanup

SpecPid == Init /\ [][PidNext \/ Return]_vars

(***************************************************************************)
(* The device probe: a DeviceResolver is made and probed on any host.      *)
(***************************************************************************)
\* DeviceResolver(...).probe() on the host env
Probe ==
    /\ Idle
    /\ \E env \in Envs :
        LET r == DeviceResolver_probe(DeviceResolver, env)
        IN  /\ op' = [name |-> "probe", env |-> env]
            /\ ret' = [raised |-> r.raised, message |-> r.message]
            /\ device' = r.device
    /\ trace' = << >>
    /\ UNCHANGED <<file, installed, pid_files, pid_file, resolv, service_cache, loads, writes>>

ProbeNext ==
    \/ Probe
    \/ Return

SpecProbe == Init /\ [][ProbeNext]_vars

(***************************************************************************)
(* The DNS resolver: tweak and rollback_origin in any order, on any host   *)
(* resolver file.                                                          *)
(***************************************************************************)
\* a call on the DNSResolver: o is the call, r the resolver files it leaves
DnsCall(o, r) ==
    /\ op' = o
    /\ ret' = None
    /\ trace' = << >>
    /\ resolv' = r
    /\ UNCHANGED <<file, installed, pid_files, pid_file, device, service_cache, loads, writes>>

\* the host's administrator writes /etc/resolv.conf while the VPN client has
\* not taken it over
HostResolvWritten ==
    /\ Idle
    /\ ~resolv.system.link
    /\ ~resolv.origin.exists
    /\ \E lines \in ListsUpTo(HostLines, MaxResolvLines) :
        resolv' = [resolv EXCEPT !.system = FileOf(lines)]
    /\ UNCHANGED <<file, op, ret, trace, installed, pid_files, pid_file, device, service_cache, loads, writes>>

Tweak ==
    /\ Idle
    /\ \E reason \in DHCPReason, new \in NameServerArgs :
       \E old \in {new, <<"">>} :
        DnsCall([name |-> "tweak", reason |-> reason, new |-> new, old |-> old],
                tweak(resolv, reason, new, old))

RollbackOrigin ==
    /\ Idle
    /\ \E is_remove \in BOOLEAN, through \in BOOLEAN :
        DnsCall([name |-> "rollback_origin", remove |-> is_remove, through |-> through],
                rollback_origin(resolv, is_remove, through))

DnsNext ==
    \/ HostResolvWritten
    \/ Tweak
    \/ RollbackOrigin
    \/ Return

SpecDns == Init /\ [][DnsNext]_vars

(***************************************************************************)
(* The command line: any sequence of the commands add, delete,             *)
(* set-default, connect, disconnect, install, uninstall and of the service *)
(* hooks start and stop.                                                   *)
(***************************************************************************)
\* the orders a dict of the store can list the keys S in
Orderings(S) == {s \in [1..Cardinality(S) -> S] : Range(s) = S}

\* [a.account for a in self.storage.list()]
ListedAccounts(f) == {a.account : a \in list(f)}

\* is_installed(silent): not silent, a missing client ends the process
is_installed(c, silent) ==
    IF c.installed \/ silent THEN c ELSE Exit(c, "VPN_NOT_INSTALLED")

require_install(c) == is_installed(c, FALSE)

\* DeviceResolver.probe: an unknown init system, IP resolver or DNS resolver
\* raises NotImplementedError
probe(c) ==
    IF ~Live(c) THEN c
    ELSE LET ok == NextOk(c)
             c1 == Emit(Called(c), [ev |-> "probe", ok |-> ok])
         IN  IF ok THEN c1 ELSE Exit(c1, "NotImplementedError")

\* pre_exec: start the VPN client unless it runs; running is what the PID scan says
pre_exec(c, running) ==
    LET c0 == is_installed(c, FALSE)
    IN  IF ~Live(c0) \/ running THEN c0
        ELSE LET ok == NextOk(c0)
                 c1 == Emit(Called(c0), [ev |-> "vpnclient_start", ok |-> ok])
             IN  IF ok THEN c1 ELSE Exit(c1, "VPN_START_FAILED")

\* post_exec: stop the VPN client unless it is to keep running
post_exec(c, running, keep_run) ==
    LET c0 == is_installed(c, FALSE)
    IN  IF ~Live(c0) \/ keep_run \/ ~running THEN c0
        ELSE Emit(_cleanup_zombie_vpn(Emit(c0, [ev |-> "vpnclient_stop"])),
                  [ev |-> "pid_cleanup"])

\* FileHelper.unpack_archive(..., vpn_dir) and the chmod of the binaries
unpack_archive(c) ==
    IF Live(c)
    THEN [c EXCEPT !.installed = TRUE, !.trace = Append(@, [ev |-> "unpack_archive"])]
    ELSE c

\* FileHelper.rm(vpn_dir): the store file goes with it when the runtime
\* directory lies inside vpn_dir
rm_vpn_dir(c, store_inside) ==
    IF Live(c)
    THEN [c EXCEPT !.installed = FALSE,
                   !.file = IF store_inside THEN EmptyDict ELSE @,
                   !.trace = Append(@, [ev |-> "rm_vpn_dir"])]
    ELSE c

\* self.device.unix_service.create: writes the unit file, then
\* `systemctl enable`, not silent
unix_service_create(c) ==
    IF ~Live(c) THEN c
    ELSE LET ok == NextOk(c)
             c1 == Emit(Called(c), [ev |-> "service_create", ok |-> ok])
         IN  IF ok THEN c1 ELSE Exit(c1, "COMMAND_FAILED")

\* do_install: the store is emptied when its file is writable
do_install(c, writable) ==
    LET c1 == unix_service_create(unpack_archive(c))
        c2 == Emit(Emit(c1, [ev |-> "add_hook"]), [ev |-> "dns_create_config"])
        c3 == IF writable THEN Write(c2, empty(c2.file, TRUE)) ELSE c2
    IN  Emit(c3, [ev |-> "export_env"])

\* do_uninstall: listed is the order in which the store lists its accounts
do_uninstall(c, keep_vpn, listed, store_inside) ==
    LET c1 == do_delete(c, listed, TRUE)
        c2 == IF ~keep_vpn
              THEN rm_vpn_dir(Emit(Emit(c1, [ev |-> "remove_hook"]), [ev |-> "remove_env"]),
                              store_inside)
              ELSE c1
    IN  Emit(c2, [ev |-> "dns_cleanup_config"])

install(c, dnsmasq, force, listed, store_inside, writable) ==
    IF ~dnsmasq THEN Exit(c, "NOT_YET_SUPPORTED")
    ELSE LET c1 == probe(c)
             c2 == IF c1.installed
                   THEN IF force THEN do_uninstall(c1, FALSE, listed, store_inside)
                        ELSE Exit(c1, "VPN_ALREADY_INSTALLED")
                   ELSE c1
         IN  do_install(c2, writable)

uninstall(c, force, listed, store_inside) ==
    do_uninstall(probe(c), ~force, listed, store_inside)

\* add that registers the default after it has stored the record
add_default_after_store(c, hub, account, hostname, is_default, no_connect) ==
    LET is_connect == ~no_connect
        c0 == probe(require_install(c))
        acc == AccountInfo(hub, account, hostname, is_default, FALSE)
        c1 == IF acc.is_default \/ is_connect
              THEN disconnect_current_vpn(c0, FALSE, TRUE)
              ELSE c0
        c2 == exec_command(c1, <<"NicCreate", "AccountDisconnect", "AccountDelete">>,
                           acc.account, TRUE)
        c3 == c2
        setup_cmd == <<"AccountCreate", "AuthSetup">>
                     \o (IF is_connect THEN <<"AccountConnect">> ELSE << >>)
                     \o (IF acc.is_default THEN <<"AccountStartUpSet">> ELSE << >>)
        c4 == exec_command(c3, setup_cmd, None, FALSE)
        c4b == Write(c4, create_or_update(c4.file, acc, is_connect))
        c5 == IF acc.is_default THEN set_default_acc(c4b, account) ELSE c4b
        c6 == Emit(c5, [ev |-> "ip_create_config", account |-> acc.account])
        c7 == Emit(c6, [ev |-> "tweak_on_nic", nic |-> account_to_nic(acc.account)])
    IN  lease_vpn_service(c7, acc.is_default, acc.is_default,
                          ~acc.is_default /\ is_connect, acc.account)

\* add: account is the --account option as given (None when omitted)
add(c, hub, account, hostname, is_default, no_connect) ==
    LET is_connect == ~no_connect
        c0 == probe(require_install(c))
        acc == AccountInfo(hub, account, hostname, is_default, FALSE)
        c1 == IF acc.is_default \/ is_connect
              THEN disconnect_current_vpn(c0, FALSE, TRUE)
              ELSE c0
        c2 == exec_command(c1, <<"NicCreate", "AccountDisconnect", "AccountDelete">>,
                           acc.account, TRUE)
        c3 == IF acc.is_default THEN set_default_acc(c2, account) ELSE c2
        setup_cmd == <<"AccountCreate", "AuthSetup">>
                     \o (IF is_connect THEN <<"AccountConnect">> ELSE << >>)
                     \o (IF acc.is_default THEN <<"AccountStartUpSet">> ELSE << >>)
        c4 == exec_command(c3, setup_cmd, None, FALSE)
        c5 == Write(c4, create_or_update(c4.file, acc, is_connect))
        c6 == Emit(c5, [ev |-> "ip_create_config", account |-> acc.account])
        c7 == Emit(c6, [ev |-> "tweak_on_nic", nic |-> account_to_nic(acc.account)])
    IN  lease_vpn_service(c7, acc.is_default, acc.is_default,
                          ~acc.is_default /\ is_connect, acc.account)

delete(c, accounts) ==
    IF Len(accounts) = 0 THEN Exit(c, "INVALID_ARGUMENT")
    ELSE do_delete(probe(require_install(c)), accounts, TRUE)

\* set-default: nothing checks that the account is in the store
cli_set_default(c, account, is_connect) ==
    LET c0 == probe(require_install(c))
        c1 == set_default_acc(c0, account)
        c2 == exec_command(c1, <<"AccountStartUpSet">>, account, FALSE)
        c3 == IF is_connect
              THEN LET d == disconnect_current_vpn(c2, FALSE, TRUE)
                   IN  Write(d, set_current(d.file, account))
              ELSE c2
    IN  lease_vpn_service(c3, TRUE, is_connect, FALSE, account)

connect(c, account) ==
    LET c0 == probe(require_install(c))
        def_acc == get_default(_load(c0.file))
        cur_acc == get_current(_load(c0.file))
    IN  IF ~Falsy(account) /\ def_acc = account
        THEN lease_vpn_service(disconnect_current_vpn(c0, FALSE, TRUE),
                               TRUE, TRUE, FALSE, None)
        ELSE do_connect(do_disconnect(c0,
                                      IF ~Falsy(cur_acc) THEN <<account, cur_acc>>
                                      ELSE <<account>>,
                                      FALSE, TRUE),
                        account)

\* disconnect: list_acc is the listed accounts the command selects, in the
\* order the store lists them
disconnect(c, accounts, _all, disable, list_acc) ==
    LET c0 == probe(require_install(c))
    IN  IF Len(accounts) = 0 /\ ~_all
        THEN disconnect_current_vpn(c0, disable, FALSE)
        ELSE do_disconnect(c0, list_acc, disable, TRUE)

\* the start hook that starts the VPN client before it writes the current pointer
__start_service_client_first(c, running) ==
    LET c0 == probe(c)
        vpn_acc == get_default(_load(c0.file))
    IN  IF Falsy(vpn_acc) THEN c0
        ELSE LET c1 == pre_exec(c0, running)
             IN  lease_vpn_ip(Write(c1, set_current(c1.file, vpn_acc)), vpn_acc)

\* the start hook of the service
__start_service(c, running) ==
    LET c0 == probe(c)
        vpn_acc == get_default(_load(c0.file))
    IN  IF Falsy(vpn_acc) THEN c0
        ELSE lease_vpn_ip(pre_exec(Write(c0, set_current(c0.file, vpn_acc)), running),
                          vpn_acc)

\* the stop hook of the service
__stop_service(c, running) ==
    LET c0 == probe(c)
        c1 == Write(c0, set_current(c0.file, ""))
    IN  Emit(post_exec(c1, running, FALSE), [ev |-> "dns_restart"])

Add ==
    /\ Idle
    /\ \E hub \in Hubs, account \in AccountArgs, hostname \in Hostnames,
       is_default \in BOOLEAN, no_connect \in BOOLEAN, fails \in Oracles,
       polls \in SomePolls :
        Handler([name |-> "add", hub |-> hub, account |-> account, hostname |-> hostname,
                 is_default |-> is_default, no_connect |-> no_connect],
                add(WithPolls(Begin(file, installed, fails), polls), hub, account, hostname,
                    is_default, no_connect),
                None)

Delete ==
    /\ Idle
    /\ \E accounts \in ListsUpTo(Keys, MaxList), fails \in Oracles :
        Handler([name |-> "delete", accounts |-> accounts],
                delete(Begin(file, installed, fails), accounts), None)

CliSetDefault ==
    /\ Idle
    /\ \E account \in Keys, is_connect \in BOOLEAN, fails \in Oracles :
        Handler([name |-> "set-default", account |-> account, is_connect |-> is_connect],
                cli_set_default(Begin(file, installed, fails), account, is_connect), None)

Connect ==
    /\ Idle
    /\ \E account \in Keys, fails \in Oracles, polls \in SomePolls :
        Handler([name |-> "connect", account |-> account],
                connect(WithPolls(Begin(file, installed, fails), polls), account), None)

Disconnect ==
    /\ Idle
    /\ \E accounts \in ListsUpTo(Keys, MaxList), _all \in BOOLEAN, disable \in BOOLEAN,
       fails \in Oracles :
        \E list_acc \in Orderings({a \in ListedAccounts(file) :
                                      _all \/ a \in Range(accounts)}) :
            Handler([name |-> "disconnect", accounts |-> accounts, all |-> _all,
                     disable |-> disable],
                    disconnect(Begin(file, installed, fails), accounts, _all, disable,
                               list_acc),
                    None)

StartService ==
    /\ Idle
    /\ \E running \in BOOLEAN, fails \in Oracles, polls \in SomePolls :
        Handler([name |-> "start"],
                __start_service(WithPolls(Begin(file, installed, fails), polls), running),
                None)

StopService ==
    /\ Idle
    /\ \E running \in BOOLEAN, fails \in Oracles :
        Handler([name |-> "stop"],
                __stop_service(Begin(file, installed, fails), running), None)

Install ==
    /\ Idle
    /\ \E dnsmasq \in BOOLEAN, force \in BOOLEAN, store_inside \in BOOLEAN,
       writable \in BOOLEAN, fails \in Oracles :
        \E listed \in Orderings(ListedAccounts(file)) :
            Handler([name |-> "install", force |-> force],
                    install(Begin(file, installed, fails), dnsmasq, force, listed,
                            store_inside, writable),
                    None)

Uninstall ==
    /\ Idle
    /\ \E force \in BOOLEAN, store_inside \in BOOLEAN, fails \in Oracles :
        \E listed \in Orderings(ListedAccounts(file)) :
            Handler([name |-> "uninstall", force |-> force],
                    uninstall(Begin(file, installed, fails), force, listed, store_inside),
                    None)

CliNext ==
    \/ Add
    \/ Delete
    \/ CliSetDefault
    \/ Connect
    \/ Disconnect
    \/ StartService
    \/ StopService
    \/ Install
    \/ Uninstall

SpecCli == Init /\ [][CliNext \/ Return]_vars

(***************************************************************************)
(* The DHCP hook (the dns command), called by the DHCP client with any     *)
(* interface on any store.  An interface name is its prefix and the rest:  *)
(* [prefix |-> "vpn_", account |-> "a"] is 'vpn_a', and with the prefix '' *)
(* the name is the rest alone.                                             *)
(***************************************************************************)
\* the interfaces the DHCP client reports
Nics == [prefix : {"vpn_", ""}, account : Keys \cup {"eth0"}]

\* ClientOpts.is_vpn_nic: nic.startswith('vpn_')
is_vpn_nic(nic) == nic.prefix = "vpn_"

\* ClientOpts.nic_to_account: nic.replace('vpn_', '', 1)
nic_to_account(nic) == nic.account

\* the dns command on the store of c and the resolver files r: the handler
\* when it has ended and the resolver files it leaves
__dns(c, r, nic, reason, new_nameservers, old_nameservers, debug) ==
    IF ~is_vpn_nic(nic) THEN [c |-> Exit(c, "0"), resolv |-> r]
    ELSE LET c0 == probe(require_install(c))
             by_pointer == find(c0.file, get_current(_load(c0.file)))
             current == IF by_pointer = NoInfo
                        THEN find(c0.file, nic_to_account(nic))
                        ELSE by_pointer
         IN  IF current = NoInfo
             THEN [c |-> Exit(c0, "VPN_ACCOUNT_NOT_FOUND"), resolv |-> r]
             ELSE IF nic_to_account(nic) # current.account
             THEN [c |-> Exit(c0, "VPN_ACCOUNT_NOT_MATCH"), resolv |-> r]
             ELSE LET c1 == IF debug THEN Emit(c0, [ev |-> "write_vpn_dns"]) ELSE c0
                      c2 == Emit(c1, [ev |-> "resolve", reason |-> reason,
                                      hub |-> current.hub])
                  IN  [c |-> c2,
                       resolv |-> IF Live(c1)
                                  THEN tweak(r, reason, new_nameservers, old_nameservers)
                                  ELSE r]

Dns ==
    /\ Idle
    /\ \E nic \in Nics, reason \in {"PREINIT", "BOUND", "RENEW"}, debug \in BOOLEAN,
       fails \in Oracles :
        LET h == __dns(Begin(file, installed, fails), resolv, nic, reason,
                       <<"n1">>, <<"">>, debug)
        IN  /\ file' = h.c.file
            /\ op' = [name |-> "dns", nic |-> nic, reason |-> reason]
            /\ ret' = [exit |-> h.c.exit, value |-> None]
            /\ trace' = h.c.trace
            /\ installed' = h.c.installed
            /\ resolv' = h.resolv
    /\ UNCHANGED <<pid_files, pid_file, device, service_cache, loads, writes>>

HookNext ==
    \/ CreateOrUpdate
    \/ Remove
    \/ SetCurrent
    \/ Dns
    \/ Return

SpecHook == Init /\ [][HookNext]_vars

(***************************************************************************)
(* The upgrade command, on any store.                                      *)
(***************************************************************************)
\* backup_config: the configuration file and the runtime directory (with the
\* account store) are copied to the backup directory
backup_config(c) == Emit(c, [ev |-> "backup_config"])

\* restore_config: the backup is copied back over the configuration file and
\* the runtime directory; snapshot is the account store backup_config copied
\* (no store file was copied when there was none)
restore_config(c, snapshot) ==
    IF Live(c)
    THEN [c EXCEPT !.file = IF snapshot = EmptyDict THEN @ ELSE snapshot,
                   !.trace = Append(@, [ev |-> "restore_config"])]
    ELSE c

\* _reconnect_vpn that also restarts the service when only a default is set
_reconnect_vpn_restart_always(c, _default_acc, _current_acc) ==
    IF Falsy(_current_acc) /\ Falsy(_default_acc) THEN c
    ELSE IF Falsy(_current_acc)
    THEN lease_vpn_service(c, TRUE, TRUE, FALSE, None)
    ELSE IF _current_acc = _default_acc
    THEN lease_vpn_service(c, TRUE, TRUE, FALSE, None)
    ELSE LET c1 == unix_service_restart(c)
             c2 == disconnect_current_vpn(Emit(c1, [ev |-> "disconnect_current_vpn"]),
                                          FALSE, TRUE)
         IN  do_connect(Emit(c2, [ev |-> "do_connect", account |-> _current_acc]),
                        _current_acc)

\* upgrade._reconnect_vpn
_reconnect_vpn(c, _default_acc, _current_acc) ==
    IF Falsy(_current_acc) /\ Falsy(_default_acc) THEN c
    ELSE IF Falsy(_current_acc)
    THEN lease_vpn_service(c, TRUE, FALSE, FALSE, None)
    ELSE IF _current_acc = _default_acc
    THEN lease_vpn_service(c, TRUE, TRUE, FALSE, None)
    ELSE LET c1 == unix_service_restart(c)
             c2 == disconnect_current_vpn(Emit(c1, [ev |-> "disconnect_current_vpn"]),
                                          FALSE, TRUE)
         IN  do_connect(Emit(c2, [ev |-> "do_connect", account |-> _current_acc]),
                        _current_acc)

\* the upgrade command; is_running is what executor.is_running answers
upgrade(c, is_running_, listed, store_inside, writable) ==
    LET c0 == probe(require_install(c))
        snapshot == c0.file
        default_acc == get_default(_load(snapshot))
        current_acc == get_current(_load(snapshot))
        c1 == backup_config(c0)
        c2 == IF is_running_ THEN disconnect_current_vpn(c1, FALSE, TRUE) ELSE c1
        c3 == do_uninstall(c2, FALSE, listed, store_inside)
        c4 == do_install(c3, writable)
        c5 == restore_config(c4, snapshot)
    IN  _reconnect_vpn(c5, default_acc, current_acc)

Upgrade ==
    /\ Idle
    /\ \E is_running_ \in BOOLEAN, store_inside \in BOOLEAN, writable \in BOOLEAN,
       fails \in Oracles, polls \in SomePolls :
        \E listed \in Orderings(ListedAccounts(file)) :
            Handler([name |-> "upgrade", is_running |-> is_running_],
                    upgrade(WithPolls(Begin(file, installed, fails), polls), is_running_,
                            listed, store_inside, writable),
                    None)

UpgradeNext ==
    \/ CreateOrUpdate
    \/ SetDefault
    \/ SetCurrent
    \/ Upgrade
    \/ Return

SpecUpgrade == Init /\ [][UpgradeNext]_vars

(***************************************************************************)
(* The service cache file on its own.                                      *)
(***************************************************************************)
\* a step on the service cache: o is the call, r its result, cache the file it leaves
ServiceCall(o, r, cache) ==
    /\ op' = o
    /\ ret' = r
    /\ service_cache' = cache
    /\ trace' = << >>
    /\ UNCHANGED <<file, installed, pid_files, pid_file, device, resolv, loads, writes>>

\* do_install: the options of the command line are completed and cached
DumpCacheService ==
    /\ Idle
    /\ \E service_dir \in ServiceDirs, service_name \in ServiceNames :
        LET svc_opts == _standard_service_opt(
                            SomeOpts(UnixServiceOpts(service_dir, service_name)),
                            service_cache, << >>, None, "{}")
        IN  ServiceCall([name |-> "_dump_cache_service", service_dir |-> service_dir,
                         service_name |-> service_name],
                        svc_opts, _dump_cache_service(svc_opts.value))

\* the cache file is deleted or damaged behind the program's back
ServiceCacheLost ==
    /\ Idle
    /\ service_cache' \in {NoCache, CorruptCache}
    /\ service_cache' # service_cache
    /\ UNCHANGED <<file, op, ret, trace, installed, pid_files, pid_file, device, resolv, loads, writes>>

\* the service identity is resolved with no explicit options
StandardServiceOpt ==
    /\ Idle
    /\ \E binary \in BinaryNames, corp_env \in CorpEnvs, corrupt_read \in CorruptReads :
        ServiceCall([name |-> "_standard_service_opt", binary |-> binary,
                     corp_env |-> corp_env],
                    _standard_service_opt(NoOpts, service_cache, binary, corp_env, corrupt_read),
                    service_cache)

ServiceOptNext ==
    \/ DumpCacheService
    \/ ServiceCacheLost
    \/ StandardServiceOpt
    \/ Return

SpecServiceOpt == Init /\ [][ServiceOptNext]_vars

(***************************************************************************)
(* The store under two processes.                                          *)
(***************************************************************************)
\* the processes that have loaded and not yet written
InFlight == {p \in Procs : loads[p] # NoLoad}

\* a process starts a store operation: self._load()
RaceLoad ==
    /\ Len(writes) + Cardinality(InFlight) < MaxWrites
    /\ \E p \in Procs \ InFlight, call \in RaceCalls :
        loads' = [loads EXCEPT ![p] = Loaded(call, _load(file))]
    /\ UNCHANGED <<file, op, ret, trace, installed, pid_files, pid_file, device, resolv,
                   service_cache, writes>>

\* a process ends its store operation: JsonHelper.dump replaces the file
RaceWrite ==
    /\ \E p \in InFlight :
        /\ file' = race_write(loads[p].call, loads[p].data, _load(file))
        /\ writes' = Append(writes, [call |-> loads[p].call, stale |-> loads[p].stale])
        /\ loads' = [q \in Procs |->
                        IF q = p THEN NoLoad
                        ELSE IF loads[q] = NoLoad THEN NoLoad
                        ELSE [loads[q] EXCEPT !.stale = TRUE]]
    /\ UNCHANGED <<op, ret, trace, installed, pid_files, pid_file, device, resolv,
                   service_cache>>

RaceNext ==
    \/ RaceLoad
    \/ RaceWrite

SpecRace == Init /\ [][RaceNext]_vars

(***************************************************************************)
(* SystemdService.status on its own: the text the status pipeline of       *)
(* systemctl prints for a service is parsed.                               *)
(***************************************************************************)
\* what the pipeline can print: the texts of the members, other states of
\* systemd, texts that differ in case or white space, nothing at all
PipelineTexts ==
    Range(ServiceStatus) \cup
    {"", None, "failed", "activating(start)", "active", "Active(running)",
     "active(running) ", " active(running)", "active (running)", "inactive"}

\* the services whose status is asked for
StatusServices == Range(DNSResolverType) \cup {"qwe-vpn", "corp-vpn"}

SystemdServiceStatus ==
    /\ Idle
    /\ \E service_name \in StatusServices, text \in PipelineTexts :
        /\ op' = [name |-> "status", service_name |-> service_name, text |-> text]
        /\ ret' = parse(text)
    /\ trace' = << >>
    /\ UNCHANGED <<file, installed, pid_files, pid_file, device, resolv, service_cache,
                   loads, writes>>

StatusNext ==
    \/ SystemdServiceStatus
    \/ Return

SpecStatus == Init /\ [][StatusNext]_vars

(***************************************************************************)
(* Claims on the store (checked under SpecStore).                          *)
(***************************************************************************)
\* r is a found record with the account, hub and hostname of info
SameRecord(r, info) ==
    /\ r # NoInfo
    /\ r.account = info.account
    /\ r.hub = info.hub
    /\ r.hostname = info.hostname

\* the step just taken is a remove naming k or a create_or_update with key k
Rewrites(o, k) ==
    \/ o.name = "remove" /\ k \in Range(o.accounts)
    \/ o.name = "create_or_update" /\ o.info.account = k

\* C2 as stated: after create_or_update(A, connect), find(A.account) returns
\* A's account, hub and hostname, and every record find returns stays the same
\* across every later store operation other than a remove naming its key or a
\* create_or_update with its key.
C2_FindAfterCreate_AsStated ==
    [][ /\ op'.name = "create_or_update"
            => SameRecord(find(file', op'.info.account), op'.info)
        /\ \A k \in Keys :
            (find(file, k) # NoInfo /\ ~Rewrites(op', k))
                => SameRecord(find(file', k), find(file, k)) ]_vars

\* C2 amended: the same for a non-empty A.account (find returns none on the
\* empty key), and until a remove naming the key, a create_or_update with the
\* key, or empty() on a writable store.
C2_FindAfterCreate ==
    [][ /\ (op'.name = "create_or_update" /\ op'.info.account # "")
            => SameRecord(find(file', op'.info.account), op'.info)
        /\ \A k \in Keys :
            ( /\ find(file, k) # NoInfo
              /\ ~Rewrites(op', k)
              /\ ~(op'.name = "empty" /\ op'.writable) )
                => SameRecord(find(file', k), find(file, k)) ]_vars

\* a record of "a" is still found after a remove that names only other keys
C2_Witness ==
    /\ op.name = "remove"
    /\ op.accounts # << >>
    /\ "a" \notin Range(op.accounts)
    /\ find(file, "a") # NoInfo

\* C3: remove(keys) deletes every listed key in one write and keeps every
\* other record; each pointer becomes '' exactly when its previous value was
\* one of the keys and is otherwise kept; the return value is the pair
\* (default was one of the keys, current was one of the keys).
C3_Remove ==
    [][ op'.name = "remove" =>
        LET keys == Range(op'.accounts)
            before == _accounts(file)
            after == _accounts(file')
        IN  /\ DOMAIN after = (DOMAIN before) \ keys
            /\ \A k \in DOMAIN after : after[k] = before[k]
            /\ get_default(file') =
                 IF get_default(file) \in keys THEN "" ELSE get_default(file)
            /\ get_current(file') =
                 IF get_current(file) \in keys THEN "" ELSE get_current(file)
            /\ ret' = <<get_default(file) \in keys, get_current(file) \in keys>>
            /\ trace' = <<DumpEvent(file')>> ]_vars

\* a remove that cleared the default but not the current pointer and left a
\* record behind
C3_Witness ==
    /\ op.name = "remove"
    /\ ret = <<TRUE, FALSE>>
    /\ get_default(file) = ""
    /\ get_current(file) \in DOMAIN _accounts(file)

\* C4 as stated: in the state remove([A]) leaves, a second remove([A]) leaves
\* the store as it is and returns (false, false).
C4_RemoveIdempotent_AsStated ==
    (op.name = "remove" /\ Len(op.accounts) = 1)
        => /\ remove(file, op.accounts) = file
           /\ remove_result(file, op.accounts) = <<FALSE, FALSE>>

\* C5: create_or_update(R, connect) stores R under R.account and keeps every
\* other record; current becomes R.account if connect and is otherwise kept;
\* default becomes R.account if R is marked default and is otherwise kept.
C5_CreateOrUpdate ==
    [][ op'.name = "create_or_update" =>
        LET R == op'.info
            before == _accounts(file)
            after == _accounts(file')
        IN  /\ DOMAIN after = (DOMAIN before) \cup {R.account}
            /\ after[R.account] =
                 [hub |-> R.hub, account |-> R.account, hostname |-> R.hostname]
            /\ \A k \in (DOMAIN before) \ {R.account} : after[k] = before[k]
            /\ get_current(file') =
                 IF op'.connect THEN R.account ELSE get_current(file)
            /\ get_default(file') =
                 IF R.is_default THEN R.account ELSE get_default(file)
            /\ ret' = R ]_vars

\* a create_or_update without connect and without the default mark that
\* overwrote a record while both pointers name another account
C5_Witness ==
    /\ op.name = "create_or_update"
    /\ ~op.connect
    /\ ~op.info.is_default
    /\ get_current(file) \in (DOMAIN _accounts(file)) \ {op.info.account}
    /\ get_default(file) = get_current(file)

(***************************************************************************)
(* Claims on the command line (checked under SpecCli).                     *)
(***************************************************************************)
\* C1 as stated: in every state any sequence of commands and service hooks
\* reaches, the default and the current pointer of the store, when non-empty,
\* each name a key of the accounts map.
C1_PointersNameAccounts_AsStated ==
    /\ ~Falsy(get_default(file)) => get_default(file) \in DOMAIN _accounts(file)
    /\ ~Falsy(get_current(file)) => get_current(file) \in DOMAIN _accounts(file)

(***************************************************************************)
(* Claims on the orchestrator (checked under Spec).                        *)
(***************************************************************************)
\* the positions of the events of one kind in a trace
EventsOf(t, kind) == {i \in DOMAIN t : t[i].ev = kind}

\* C6: do_connect with an empty account exits with the invalid-argument code,
\* and with a non-empty account that is not in the store exits with the
\* account-not-found code; in both cases the store is unchanged and the exit is
\* the only thing the handler did (no write, command, service call or lease).
C6_ConnectRejects ==
    [][ op'.name = "do_connect" =>
        /\ Falsy(op'.account) =>
             /\ ret'.exit = "INVALID_ARGUMENT"
             /\ file' = file
             /\ trace' = <<ExitEvent("INVALID_ARGUMENT")>>
        /\ (~Falsy(op'.account) /\ op'.account \notin DOMAIN _accounts(file)) =>
             /\ ret'.exit = "VPN_ACCOUNT_NOT_FOUND"
             /\ file' = file
             /\ trace' = <<ExitEvent("VPN_ACCOUNT_NOT_FOUND")>> ]_vars

\* do_connect was refused an unknown account while the store holds accounts
C6_Witness ==
    /\ op.name = "do_connect"
    /\ ret.exit = "VPN_ACCOUNT_NOT_FOUND"
    /\ DOMAIN _accounts(file) # {}
    /\ ~Falsy(get_current(file))

\* C7: for an account in the store, do_connect first writes the store with
\* current set to the account, then issues AccountConnect, then (the command
\* having succeeded) calls lease_vpn_service exactly once with enable = restart
\* = (the account is the default) and lease_ip = (it is not); it writes and
\* commands nothing else, and when it returns current is the account.
C7_ConnectOrder ==
    [][ ( /\ op'.name = "do_connect"
          /\ ~Falsy(op'.account)
          /\ op'.account \in DOMAIN _accounts(file) ) =>
        LET t == trace'
            account == op'.account
            is_default == get_default(file) = account
        IN  /\ Len(t) >= 2
            /\ t[1].ev = "dump"
            /\ get_current(t[1].data) = account
            /\ t[2].ev = "exec_command"
            /\ t[2].commands = <<"AccountConnect">>
            /\ t[2].params = account
            /\ EventsOf(t, "dump") = {1}
            /\ EventsOf(t, "exec_command") = {2}
            /\ EventsOf(t, "lease_vpn_service") = IF t[2].ok THEN {3} ELSE {}
            /\ t[2].ok =>
                 t[3] = [ev |-> "lease_vpn_service", is_enable |-> is_default,
                         is_restart |-> is_default, is_lease_ip |-> ~is_default,
                         account |-> account]
            /\ ret'.exit = None => get_current(file') = account ]_vars

\* do_connect returned after leasing an IP for an account that is not the default
C7_Witness ==
    /\ op.name = "do_connect"
    /\ ret.exit = None
    /\ EventsOf(trace, "lease_vpn_ip") # {}
    /\ get_current(file) = op.account
    /\ ~Falsy(get_default(file))

\* C8: when do_disconnect returns and the store's current account was among
\* the listed accounts, current is '' and shutdown_vpn was called exactly once,
\* with stop and with disable = must_disable_service, after every per-account
\* step and the write that clears current; when the current account was not
\* listed, shutdown_vpn was not called and the store is unchanged.
C8_Disconnect ==
    [][ op'.name = "do_disconnect" =>
        LET t == trace'
            n == Len(op'.accounts)
            listed == get_current(file) \in Range(op'.accounts)
            shutdowns == EventsOf(t, "shutdown_vpn")
        IN  /\ (listed /\ ret'.exit = None) =>
                 /\ get_current(file') = ""
                 /\ shutdowns = {3 * n + 2}
                 /\ t[3 * n + 1] = DumpEvent(set_current(file, ""))
                 /\ t[3 * n + 2] = [ev |-> "shutdown_vpn", is_stop |-> TRUE,
                                    is_disable |-> op'.must_disable_service]
                 /\ \A i \in DOMAIN t :
                      t[i].ev \in {"exec_command", "release_ip"} => i <= 3 * n
                 /\ Cardinality(EventsOf(t, "release_ip")) = n
            /\ ~listed =>
                 /\ shutdowns = {}
                 /\ file' = file ]_vars

\* do_disconnect returned after being given the current account twice
C8_Witness ==
    /\ op.name = "do_disconnect"
    /\ Len(op.accounts) = 2
    /\ op.accounts[1] = op.accounts[2]
    /\ op.accounts[1] # ""
    /\ ret.exit = None
    /\ EventsOf(trace, "shutdown_vpn") # {}

\* C9: when do_delete returns, no listed account is in the store, one removal
\* was written per listed account, and shutdown_vpn was called exactly once,
\* after all removals, with stop = (current was one of the listed accounts) and
\* disable = (default was one of the listed accounts); also for the empty list.
C9_Delete ==
    [][ (op'.name = "do_delete" /\ ret'.exit = None) =>
        LET t == trace'
            n == Len(op'.accounts)
            listed == Range(op'.accounts)
        IN  /\ (DOMAIN _accounts(file')) \cap listed = {}
            /\ Cardinality(EventsOf(t, "dump")) = n
            /\ EventsOf(t, "shutdown_vpn") = {2 * n + 1}
            /\ t[2 * n + 1] = [ev |-> "shutdown_vpn",
                               is_stop |-> get_current(file) \in listed,
                               is_disable |-> get_default(file) \in listed]
            /\ \A i \in EventsOf(t, "dump") : i <= 2 * n ]_vars

\* do_delete removed the default account while another account stays current:
\* shutdown_vpn(stop=false, disable=true)
C9_Witness ==
    /\ op.name = "do_delete"
    /\ ret.exit = None
    /\ \E i \in DOMAIN trace :
         trace[i] = [ev |-> "shutdown_vpn", is_stop |-> FALSE, is_disable |-> TRUE]
    /\ get_current(file) \in DOMAIN _accounts(file)

\* C10: set_default_acc(new) with a non-empty default D issues
\* AccountStartupRemove for D, then writes the store with default '', then
\* writes it with default new (so no write carries D next to new); with no
\* default it issues no command; when it returns, default is new (empty when
\* new is empty).
C10_SetDefaultAcc ==
    [][ op'.name = "set_default_acc" =>
        LET t == trace'
            D == get_default(file)
            new == op'.account
        IN  /\ ~Falsy(D) =>
                 /\ t[1].ev = "exec_command"
                 /\ t[1].commands = <<"AccountStartupRemove">>
                 /\ t[1].params = D
                 /\ ret'.exit = None =>
                      /\ Len(t) = 3
                      /\ t[2].ev = "dump"
                      /\ get_default(t[2].data) = ""
                      /\ t[3].ev = "dump"
                      /\ get_default(t[3].data) = IF new = None THEN "" ELSE new
                 /\ ret'.exit # None =>
                      /\ EventsOf(t, "dump") = {}
                      /\ file' = file
            /\ Falsy(D) =>
                 /\ EventsOf(t, "exec_command") = {}
                 /\ Len(t) = 1
                 /\ t[1].ev = "dump"
            /\ ret'.exit = None =>
                 IF Falsy(new) THEN Falsy(get_default(file'))
                 ELSE get_default(file') = new ]_vars

\* set_default_acc replaced the default "h" by "a"
C10_Witness ==
    /\ op.name = "set_default_acc"
    /\ ret.exit = None
    /\ Len(trace) = 3
    /\ trace[1].params = "h"
    /\ get_default(file) = "a"

(***************************************************************************)
(* Claims on the service steps (checked under SpecService).                *)
(***************************************************************************)
\* the events of a trace at the positions ps, in order
RECURSIVE Pick(_, _)
Pick(t, ps) ==
    IF t = << >> THEN << >>
    ELSE LET rest == Pick(Tail(t), {p - 1 : p \in ps \ {1}})
         IN  IF 1 \in ps THEN <<Head(t)>> \o rest ELSE rest

C12_LeasePhases ==
    [][ (op'.name = "lease_vpn_ip" /\ ~Falsy(op'.account)) =>
        LET t == trace'
            status_polls == EventsOf(t, "AccountStatusGet")
            ip_phase == EventsOf(t, "lease_ip") \cup EventsOf(t, "get_vpn_ip")
            established == \E i \in 1..MaxRetries :
                               op'.polls.status[i] = SessionEstablished
        IN  /\ \A i \in ip_phase :
                 /\ t[i].nic = [prefix |-> "vpn_", account |-> op'.account]
                 /\ \E j \in status_polls :
                      /\ j < i
                      /\ t[j].status = SessionEstablished
                      /\ \A k \in status_polls : k <= j
            /\ \A j \in status_polls :
                 t[j].status = SessionEstablished => \A k \in status_polls : k <= j
            /\ Cardinality(EventsOf(t, "lease_ip")) <= 1
            /\ \A i \in EventsOf(t, "lease_ip") : \A k \in EventsOf(t, "get_vpn_ip") : i < k
            /\ established => Cardinality(EventsOf(t, "lease_ip")) = 1
            /\ ~established =>
                 /\ ret'.exit = "Unable connect VPN. Please check log for more detail"
                 /\ Cardinality(status_polls) = MaxRetries
                 /\ ip_phase = {} ]_vars

\* a status that is only a prefix of the marker was polled, the marker came
\* later, and the address came at the second address poll
C12_Witness ==
    /\ op.name = "lease_vpn_ip"
    /\ ret.exit = None
    /\ \E j \in EventsOf(trace, "AccountStatusGet") : trace[j].status = "Connection Completed"
    /\ Cardinality(EventsOf(trace, "get_vpn_ip")) = 2

\* C13: lease_vpn_service enables the service exactly when enable is true,
\* then restarts it exactly when restart is true, then (the restart not having
\* ended the process) runs lease_vpn_ip(account) exactly when lease_ip is true
\* and account is non-empty; nothing else is done to the service.
C13_LeaseService ==
    [][ op'.name = "lease_vpn_service" =>
        LET t == trace'
            steps == Pick(t, EventsOf(t, "enable") \cup EventsOf(t, "restart")
                             \cup EventsOf(t, "lease_vpn_ip"))
            enable == IF op'.is_enable THEN <<"enable">> ELSE << >>
            restart == IF op'.is_restart THEN <<"restart">> ELSE << >>
            restarted == \A i \in EventsOf(t, "restart") : t[i].ok
            lease == IF op'.is_lease_ip /\ ~Falsy(op'.account) /\ restarted
                     THEN <<"lease_vpn_ip">> ELSE << >>
        IN  /\ [i \in DOMAIN steps |-> steps[i].ev] = enable \o restart \o lease
            /\ \A i \in EventsOf(t, "lease_vpn_ip") : t[i].account = op'.account
            /\ EventsOf(t, "disable") \cup EventsOf(t, "stop") = {}
            /\ file' = file ]_vars

\* all three steps ran and the lease succeeded
C13_Witness ==
    /\ op.name = "lease_vpn_service"
    /\ op.is_enable /\ op.is_restart /\ op.is_lease_ip
    /\ ret.exit = None
    /\ EventsOf(trace, "get_vpn_ip") # {}

C14_Add ==
    [][ (op'.name = "add" /\ ret'.exit = None) =>
        LET t == trace'
            R == AccountInfo(op'.hub, op'.account, op'.hostname, op'.is_default, FALSE)
            is_connect == ~op'.no_connect
            leases == EventsOf(t, "lease_vpn_service")
        IN  /\ R.account = IF Falsy(op'.account) THEN op'.hub ELSE op'.account
            /\ R.account \in DOMAIN _accounts(file')
            /\ _accounts(file')[R.account] =
                 [hub |-> R.hub, account |-> R.account, hostname |-> R.hostname]
            /\ op'.is_default => get_default(file') = R.account
            /\ is_connect => get_current(file') = R.account
            /\ Cardinality(leases) = 1
            /\ \A i \in leases :
                 t[i] = [ev |-> "lease_vpn_service", is_enable |-> op'.is_default,
                         is_restart |-> op'.is_default,
                         is_lease_ip |-> ~op'.is_default /\ is_connect,
                         account |-> R.account] ]_vars

\* add without an account name, as default and connecting, returned on a store
\* that had another default: default = current = the hub
C14_Witness ==
    /\ op.name = "add"
    /\ op.account = None
    /\ op.is_default /\ ~op.no_connect
    /\ ret.exit = None
    /\ \E i \in DOMAIN trace :
         /\ trace[i].ev = "exec_command"
         /\ trace[i].commands = <<"AccountStartupRemove">>
    /\ get_default(file) = "h"
    /\ get_current(file) = "h"

(***************************************************************************)
(* Claims on the PID handler (checked under SpecPid).                      *)
(***************************************************************************)
\* the text of a candidate file is a positive PID of a live process
HoldsLivePid(text, live) ==
    /\ int(text).ok
    /\ int(text).value > 0
    /\ int(text).value \in live

\* C16: is_running returns true exactly when some candidate PID file holds a
\* positive PID of a live process; then the canonical PID file holds the
\* first such PID in scan order; when it returns false no candidate PID file
\* and no canonical PID file is left.
C16_IsRunning ==
    [][ op'.name = "is_running" =>
        LET holders == {i \in DOMAIN pid_files : HoldsLivePid(pid_files[i], op'.live)}
        IN  /\ ret' = (holders # {})
            /\ ret' = TRUE =>
                 \E i \in holders :
                    /\ \A j \in holders : i <= j
                    /\ int(pid_file').ok
                    /\ int(pid_file').value = int(pid_files[i]).value
                    /\ pid_file' = str(int(pid_files[i]).value)
            /\ ret' = FALSE =>
                 /\ pid_files' = << >>
                 /\ pid_file' = None ]_vars

\* is_running found the PID 12 in the second file, behind a file with the PID
\* of a process that is gone
C16_Witness ==
    /\ op.name = "is_running"
    /\ ret = TRUE
    /\ pid_file = <<"1", "2">>
    /\ Len(pid_files) = 2
    /\ pid_files[1] = <<"7">>
    /\ 7 \notin op.live

\* C17 as stated: after an is_running scan every candidate PID file that is
\* left holds a positive PID of a live process (the files that do not parse as
\* a positive integer, or whose process is gone, have been removed).
C17_StaleFilesRemoved_AsStated ==
    op.name = "is_running" =>
        \A i \in DOMAIN pid_files : HoldsLivePid(pid_files[i], op.live)

(***************************************************************************)
(* Claims on the device probe (checked under SpecProbe).                   *)
(***************************************************************************)
\* C18 as stated: DeviceResolver.probe() is all-or-nothing: when it returns
\* the three controllers (service, IP resolver, DNS resolver) are set; when
\* one of the sub-probes fails it raises and none of the three controllers of
\* the DeviceResolver is set; on a host without an init-system marker it
\* fails with no controller set.
C18_ProbeAllOrNothing_AsStated ==
    op.name = "probe" =>
        /\ ~ret.raised =>
             /\ device.service # None
             /\ device.ip_resolver # None
             /\ device.dns_resolver # None
        /\ ret.raised => device = DeviceResolver
        /\ (~op.env.systemd /\ ~op.env.procd) =>
             /\ ret.raised
             /\ device = DeviceResolver

\* C19 as stated: the init-system backend is systemd on a host with the
\* systemd marker (whether or not procd is there too), procd on a host with
\* only the procd marker, and the probe fails with the unknown-init-system
\* error exactly on a host with neither marker.
C19_InitSystemSelection_AsStated ==
    op.name = "probe" =>
        /\ op.env.systemd => device.service = SYSTEMD
        /\ (~op.env.systemd /\ op.env.procd) => device.service = PROCD
        /\ (~op.env.systemd /\ ~op.env.procd) <=>
             (ret.raised /\ ret.message = <<"Unknown ", "INIT system">>)

\* the DNS managers the selection knows, in enumeration order
KnownDNSManagers == SubSeq(DNSResolverType, 1, 5)

\* C20 as stated: once the init system and the IP resolver are found, the DNS
\* resolver set by the probe is the first of connman, dnsmasq,
\* systemd-resolved, NetworkManager, resolvconf whose service is RUNNING; if
\* none is running it is resolvconf when the resolvconf tool is there;
\* otherwise the probe fails with the unknown-DNS-resolver error; and after a
\* successful probe the kind is neither unset nor 'unknown'.
C20_DnsSelection_AsStated ==
    (op.name = "probe" /\ op.env.systemd /\ op.env.dhclient) =>
        LET running == SelectSeq(KnownDNSManagers,
                                 LAMBDA t : op.env.active[t] = RUNNING)
        IN  /\ Len(running) > 0 =>
                 (~ret.raised /\ device.dns_resolver = running[1])
            /\ (Len(running) = 0 /\ op.env.resolvconf) =>
                 (~ret.raised /\ device.dns_resolver = RESOLVCONF)
            /\ (Len(running) = 0 /\ ~op.env.resolvconf) =>
                 (ret.raised /\ ret.message = <<"Unknown DNS resolver">>)
            /\ ~ret.raised => device.dns_resolver \notin {None, UNKNOWN}

(***************************************************************************)
(* Claims on the DNS resolver (checked under SpecDns).                     *)
(***************************************************************************)
\* C21: a DNS resolve (tweak) with reason PREINIT changes nothing, whatever
\* the nameserver arguments and the resolver files before: no backup is
\* made, the generated resolver file is not written and the system resolver
\* file is not redirected.
C21_PreinitNoop ==
    [][ (op'.name = "tweak" /\ op'.reason = "PREINIT") =>
        /\ resolv'.origin = resolv.origin
        /\ resolv'.vpn = resolv.vpn
        /\ resolv'.system = resolv.system ]_vars

\* a PREINIT tweak with a new nameserver, on a host whose resolver file has
\* not been touched: still no backup and no link
C21_Witness ==
    /\ op.name = "tweak"
    /\ op.reason = "PREINIT"
    /\ op.new = <<"n1">>
    /\ op.old = <<"">>
    /\ ~resolv.origin.exists
    /\ ~resolv.system.link

\* the nameserver lines of a file
NameserverLines(lines) == SelectSeq(lines, LAMBDA l : l[1] = "nameserver ")

\* the tweak rewrites: any reason but PREINIT, and not a RENEW with the
\* nameservers unchanged
TweakRewrites(o) ==
    /\ o.name = "tweak"
    /\ o.reason # "PREINIT"
    /\ ~(o.reason = "RENEW" /\ o.new = o.old)

\* C22: a tweak with reason RENEW and new == old writes nothing; a RENEW with
\* new # old, and every reason other than PREINIT, writes a resolver file
\* whose nameserver lines are the non-empty entries among the first two new
\* nameservers, in order, followed by the original nameservers in the order
\* of the backup, three nameserver lines at most, and makes the system
\* resolver file point at it.
C22_TweakContent ==
    [][ /\ (op'.name = "tweak" /\ op'.reason = "RENEW" /\ op'.new = op'.old) =>
            resolv' = resolv
        /\ TweakRewrites(op') =>
            LET new == op'.new
                n1 == IF new[1] # "" THEN << <<"nameserver ", new[1]>> >> ELSE << >>
                n2 == IF Len(new) >= 2 /\ new[2] # ""
                      THEN << <<"nameserver ", new[2]>> >> ELSE << >>
                originals == NameserverLines(resolv'.origin.lines)
                written == NameserverLines(resolv'.vpn.lines)
                total == IF Len(n1 \o n2) + Len(originals) < 3
                         THEN Len(n1 \o n2) + Len(originals) ELSE 3
            IN  /\ resolv'.vpn.exists
                /\ Len(written) = total
                /\ \A i \in 1..total :
                     written[i] = IF i <= Len(n1 \o n2) THEN (n1 \o n2)[i]
                                  ELSE originals[i - Len(n1 \o n2)]
                /\ resolv'.system = LinkToVpnCfg
                /\ SystemLines(resolv') = resolv'.vpn.lines ]_vars

\* a REBIND with three new nameservers, the second one empty, on a host with
\* two original nameserver lines: n2 first, then the two originals, and no n1
C22_Witness ==
    /\ op.name = "tweak"
    /\ op.reason = "REBIND"
    /\ op.new = <<"n2", "", "n1">>
    /\ NameserverLines(resolv.origin.lines)
         = << <<"nameserver ", "o2">>, <<"nameserver ", "o1">> >>
    /\ NameserverLines(resolv.vpn.lines)
         = << <<"nameserver ", "n2">>, <<"nameserver ", "o2">>, <<"nameserver ", "o1">> >>

\* C23: the backup of the system resolver file is made by the first tweak
\* that rewrites, with the content the system resolver file had before it,
\* no later call overwrites it until rollback_origin, and it never holds
\* content generated for the VPN.
C23_BackupOnce ==
    [][ /\ (resolv.origin.exists /\ op'.name # "rollback_origin") =>
            resolv'.origin = resolv.origin
        /\ (~resolv.origin.exists /\ TweakRewrites(op')) =>
            resolv'.origin = FileOf(SystemLines(resolv))
        /\ resolv'.origin.exists =>
            \A i \in DOMAIN resolv'.origin.lines :
                resolv'.origin.lines[i] \in HostLines ]_vars

\* a second rewriting tweak, run while the system resolver file points at
\* the generated file: the backup still is the host's file
C23_Witness ==
    /\ op.name = "tweak"
    /\ op.reason = "BOUND"
    /\ op.new = <<"n2">>
    /\ resolv.origin = FileOf(<< <<"search ", "lan">>, <<"nameserver ", "o2">> >>)
    /\ resolv.vpn.lines
         = << <<"### Generated by VPN service">>, <<"nameserver ", "n2">>,
              <<"nameserver ", "o2">> >>
    /\ resolv.system.link

\* C24: rollback_origin with a backup leaves the system resolver file with
\* the content of the backup (the resolver file from before the VPN);
\* without a backup it changes nothing; and a second rollback_origin right
\* after the first changes nothing more.
C24_Rollback ==
    [][ op'.name = "rollback_origin" =>
        /\ resolv.origin.exists => SystemLines(resolv') = resolv.origin.lines
        /\ ~resolv.origin.exists => resolv' = resolv
        /\ rollback_origin(resolv', op'.remove, op'.through) = resolv' ]_vars

\* a rollback after a tweak: the system resolver file reads as the host's
\* file again, not as the generated one
C24_Witness ==
    /\ op.name = "rollback_origin"
    /\ SystemLines(resolv) = << <<"nameserver ", "o2">>, <<"search ", "lan">> >>
    /\ resolv.vpn.exists

(***************************************************************************)
(* Further claims on the orchestrator (checked under Spec).                *)
(***************************************************************************)
\* C27 as stated: in do_delete and do_disconnect a failing management command
\* for one account does not end the batch: the command is issued for every
\* listed account, every listed account is removed from the store
\* (do_delete) or has its IP released (do_disconnect), and the shutdown
\* decision is applied at the end.
C27_BatchContinues_AsStated ==
    [][ /\ op'.name = "do_delete" =>
            LET n == Len(op'.accounts)
            IN  /\ Cardinality(EventsOf(trace', "exec_command")) = n
                /\ Cardinality(EventsOf(trace', "dump")) = n
                /\ (DOMAIN _accounts(file')) \cap Range(op'.accounts) = {}
                /\ Cardinality(EventsOf(trace', "shutdown_vpn")) = 1
        /\ op'.name = "do_disconnect" =>
            LET n == Len(op'.accounts)
                listed == get_current(file) \in Range(op'.accounts)
            IN  /\ Cardinality(EventsOf(trace', "exec_command")) = n
                /\ Cardinality(EventsOf(trace', "release_ip")) = n
                /\ listed =>
                     /\ get_current(file') = ""
                     /\ Cardinality(EventsOf(trace', "shutdown_vpn")) = 1 ]_vars

(***************************************************************************)
(* Claims on the DHCP hook (checked under SpecHook).                       *)
(***************************************************************************)
\* C25 as stated: the dns command reaches the DNS resolve step only when the
\* interface name starts with "vpn_" and the account derived from it is the
\* store's currently connected account; every other call (another
\* interface, an interface of another account, no account connected) is
\* rejected: it ends the process and leaves the resolver files and the
\* store as they were.
C25_HookGuard_AsStated ==
    [][ op'.name = "dns" =>
        LET current == get_current(file)
            accepted == /\ op'.nic.prefix = "vpn_"
                        /\ ~Falsy(current)
                        /\ op'.nic.account = current
        IN  /\ EventsOf(trace', "resolve") # {} => accepted
            /\ ~accepted =>
                 /\ ret'.exit # None
                 /\ resolv' = resolv
                 /\ file' = file ]_vars

(***************************************************************************)
(* Claims on the upgrade command (checked under SpecUpgrade).              *)
(***************************************************************************)
\* C26: upgrade replays the (default, current) pair from before the upgrade:
\* neither set, nothing; default only, lease_vpn_service(enable, no restart,
\* no lease); current = default, lease_vpn_service(enable, restart, no
\* lease), enabling before restarting; current set and not the default, a
\* restart of the service, then disconnect_current_vpn, then
\* do_connect(current).  Every step of the replay comes after the removal of
\* the client, its reinstallation and the restore of the configuration, in
\* that order.
C26_UpgradeReplay ==
    [][ op'.name = "upgrade" =>
        LET t == trace'
            D == get_default(file)
            Cur == get_current(file)
            restored == EventsOf(t, "restore_config")
            replay == EventsOf(t, "lease_vpn_service") \cup EventsOf(t, "do_connect")
                      \cup EventsOf(t, "enable") \cup EventsOf(t, "restart")
                      \cup EventsOf(t, "disconnect_current_vpn")
            LeaseEvent(is_restart) ==
                [ev |-> "lease_vpn_service", is_enable |-> TRUE, is_restart |-> is_restart,
                 is_lease_ip |-> FALSE, account |-> None]
        IN  /\ \A i \in replay :
                 \E u \in EventsOf(t, "rm_vpn_dir"), n \in EventsOf(t, "unpack_archive"),
                    r \in restored : u < n /\ n < r /\ r < i
            /\ Cardinality(restored) <= 1
            /\ \A r \in restored :
                 LET after == SubSeq(t, r + 1, Len(t))
                 IN  IF Falsy(Cur) /\ Falsy(D) THEN after = << >>
                     ELSE IF Falsy(Cur)
                     THEN after = <<LeaseEvent(FALSE), [ev |-> "enable"]>>
                     ELSE IF Cur = D
                     THEN /\ Len(after) >= 3
                          /\ SubSeq(after, 1, 2) = <<LeaseEvent(TRUE), [ev |-> "enable"]>>
                          /\ after[3].ev = "restart"
                          /\ EventsOf(after, "lease_vpn_service") = {1}
                          /\ EventsOf(after, "do_connect") = {}
                     ELSE /\ Len(after) >= 1
                          /\ after[1].ev = "restart"
                          /\ EventsOf(after, "restart") = {1}
                          /\ after[1].ok =>
                               /\ after[2] = [ev |-> "disconnect_current_vpn"]
                               /\ \E k \in DOMAIN after :
                                    /\ k > 2
                                    /\ after[k] = [ev |-> "do_connect", account |-> Cur]
                                    /\ EventsOf(after, "do_connect") = {k}
                                    /\ \A i \in EventsOf(after, "lease_vpn_service")
                                              \cup EventsOf(after, "enable") : i > k
                                    /\ \A i \in EventsOf(after, "release_ip")
                                              \cup EventsOf(after, "shutdown_vpn") : i < k ]_vars

\* an upgrade that returned after it replayed a current account that is not
\* the default: the account is disconnected, then connected again and leased
C26_Witness ==
    /\ op.name = "upgrade"
    /\ ret.exit = None
    /\ EventsOf(trace, "do_connect") # {}
    /\ EventsOf(trace, "lease_vpn_ip") # {}
    /\ \E i \in EventsOf(trace, "restore_config"), j \in EventsOf(trace, "release_ip") : i < j
    /\ ~Falsy(get_default(file))
    /\ get_current(file) # get_default(file)

(***************************************************************************)
(* Claims on the store with a file that can get lost (checked under        *)
(* SpecStoreLost).                                                         *)
(***************************************************************************)
\* C28: on a missing or unreadable store file the store reads as empty and
\* no call fails: list() is empty, default and current are unset, find(k) is
\* none for every k and remove(keys) returns (false, false); and on any
\* store find with an empty key returns none.
C28_LostStoreReadsEmpty ==
    [][ /\ file \in {Unreadable, EmptyDict} =>
            /\ get_default(_load(file)) = None
            /\ get_current(_load(file)) = None
            /\ op'.name = "list" => ret' = {}
            /\ op'.name = "find" => ret' = NoInfo
            /\ op'.name = "remove" => ret' = <<FALSE, FALSE>>
        /\ (op'.name = "find" /\ Falsy(op'.account)) => ret' = NoInfo ]_vars

\* find of an account on a store file that had become unreadable
C28_Witness ==
    /\ op.name = "find"
    /\ op.account = "a"
    /\ ret = NoInfo
    /\ file = Unreadable

(***************************************************************************)
(* Claims on the derived flags (checked under Spec).                       *)
(***************************************************************************)
\* the fields of a record of the store file
PersistedFields == {"hub", "account", "hostname"}

\* C29: is_default and is_current are derived when a record is read: every
\* record list() or find() returns has is_default = (its key is the default
\* pointer) and is_current = (its key is the current pointer), so at most one
\* listed record carries each flag; and after any sequence of store
\* operations and handlers (do_connect writes back a record it got from
\* find) no record of the file has an is_default or is_current field.
C29_DerivedFlags ==
    LET data == _load(file)
        keys == DOMAIN _accounts(data)
        flagged(k) == AccountInfo(_accounts(data)[k].hub, k, _accounts(data)[k].hostname,
                                  k = get_default(data), k = get_current(data))
    IN  /\ list(file) = {flagged(k) : k \in keys}
        /\ \A k \in keys : ~Falsy(k) => find(file, k) = flagged(k)
        /\ Cardinality({r \in list(file) : r.is_default}) <= 1
        /\ Cardinality({r \in list(file) : r.is_current}) <= 1
        /\ \A k \in keys : DOMAIN _accounts(data)[k] = PersistedFields

\* do_connect has written back the record of the default account, which it
\* got from find with is_default set, next to a second account
C29_Witness ==
    /\ op.name = "do_connect"
    /\ op.account = "a"
    /\ ret.exit = None
    /\ get_default(file) = "a"
    /\ get_current(file) = "a"
    /\ Cardinality(DOMAIN _accounts(file)) = 2
    /\ find(file, "a").is_default
    /\ find(file, "a").is_current

(***************************************************************************)
(* Claims on the pointer setters (checked under SpecStore).                *)
(***************************************************************************)
\* C30: set_default(k) and set_current(k) each write the pointer they name
\* and nothing else: the accounts map and the other pointer read as before,
\* and the named pointer reads k, also when k is the empty string.
C30_SettersWriteOnePointer ==
    [][ /\ op'.name = "set_default" =>
            /\ get_default(_load(file')) = op'.account
            /\ get_current(_load(file')) = get_current(_load(file))
            /\ _accounts(_load(file')) = _accounts(_load(file))
        /\ op'.name = "set_current" =>
            /\ get_current(_load(file')) = op'.account
            /\ get_default(_load(file')) = get_default(_load(file))
            /\ _accounts(_load(file')) = _accounts(_load(file)) ]_vars

\* set_default('') has emptied the default pointer of a store that holds an
\* account and names it as current
C30_Witness ==
    /\ op.name = "set_default"
    /\ op.account = ""
    /\ get_default(file) = ""
    /\ get_current(file) = "a"
    /\ "a" \in DOMAIN _accounts(file)

(***************************************************************************)
(* Claims on the service identity (checked under SpecServiceOpt).          *)
(***************************************************************************)
\* C31 as stated: resolving the service identity with no explicit options
\* returns the cached {service_dir, service_name} when the cache file is
\* readable, and the environment-derived default (standard service
\* directory, brand-derived name) when the file is absent or corrupt, and
\* raises no error.
C31_ServiceIdentity_AsStated ==
    [][ op'.name = "_standard_service_opt" =>
            /\ ~ret'.raised
            /\ ret'.value =
                 IF service_cache.kind = "json" THEN service_cache.data
                 ELSE UnixServiceOpts(StandardServiceDir,
                                      vpn_service_name(op'.binary, op'.corp_env)) ]_vars

(***************************************************************************)
(* The systemd controller below the orchestrator (checked under Spec).     *)
(***************************************************************************)
\* SystemdService.disable without force: the systemctl commands it runs
SystemdService_disable == <<"stop", "disable", "daemon-reload">>

\* SystemdService.stop
SystemdService_stop == <<"stop">>

\* the systemctl commands of one effect of a handler
systemctl(e) ==
    CASE e.ev = "disable" -> SystemdService_disable
      [] e.ev = "stop" -> SystemdService_stop
      [] OTHER -> << >>

\* the systemctl commands of the first n effects of a trace, in order
RECURSIVE SystemctlUpTo(_, _)
SystemctlUpTo(t, n) ==
    IF n = 0 THEN << >> ELSE SystemctlUpTo(t, n - 1) \o systemctl(t[n])

\* C32 as stated: shutdown_vpn stops the OS service only when stop is true:
\* a handler that reaches shutdown_vpn with stop = false (as do_delete of an
\* account that is the default but not the current one does, with disable =
\* true) runs no `systemctl stop`, so the connection of the current account
\* is left running.
C32_StopOnlyOnStop_AsStated ==
    [][ \A i \in DOMAIN trace' :
            (trace'[i].ev = "shutdown_vpn" /\ ~trace'[i].is_stop) =>
                \A j \in DOMAIN SystemctlUpTo(trace', Len(trace')) :
                    SystemctlUpTo(trace', Len(trace'))[j] # "stop" ]_vars

(***************************************************************************)
(* Claims on the store under two processes (checked under SpecRace).       *)
(***************************************************************************)
\* the argument of the last write of one kind, dflt if there is none
RECURSIVE LastPointer(_, _, _, _)
LastPointer(w, n, name, dflt) ==
    IF n = 0 THEN dflt
    ELSE IF w[n].call.name = name THEN w[n].call.account
    ELSE LastPointer(w, n - 1, name, dflt)

\* the records the create_or_update calls among the writes have stored
CreatedRecords(w) ==
    {to_json(w[i].call.info) : i \in {j \in DOMAIN w : w[j].call.name = "create_or_update"}}

\* C33: the store has no mutual exclusion between processes.  As long as
\* the store operations are serialized (no process writes between another's
\* load and its write) no update is lost: the default and the current
\* pointer are those of the last set_default and set_current, and every
\* record stored by create_or_update is there.  (That an interleaved write
\* can lose an update is the state of C33_Witness.)
C33_SerializedKeepsUpdates ==
    (\A i \in DOMAIN writes : ~writes[i].stale) =>
        /\ get_default(_load(file)) = LastPointer(writes, Len(writes), "set_default", None)
        /\ get_current(_load(file)) = LastPointer(writes, Len(writes), "set_current", None)
        /\ \A r \in CreatedRecords(writes) :
              \A k \in DOMAIN r : k \in DOMAIN _accounts(_load(file))
                                  /\ _accounts(_load(file))[k] = r[k]

\* set_default('a') has raced set_current('h'): it loaded first and wrote
\* last, and the current pointer written in between is lost
C33_Witness ==
    /\ writes = <<[call |-> [name |-> "set_current", account |-> "h"], stale |-> FALSE],
                  [call |-> [name |-> "set_default", account |-> "a"], stale |-> TRUE]>>
    /\ get_default(file) = "a"
    /\ get_current(file) # "h"

(***************************************************************************)
(* Claims on the lease and the hooks of the service (checked under         *)
(* SpecCli).                                                               *)
(***************************************************************************)
\* the store file when the n-th effect of a trace happens: what the last
\* write before it left, f if there is none
RECURSIVE FileAt(_, _, _)
FileAt(t, n, f) ==
    IF n <= 1 THEN f
    ELSE IF t[n - 1].ev = "dump" THEN t[n - 1].data
    ELSE FileAt(t, n - 1, f)

\* the DHCP hook for the interface of account on the store f reaches the resolver
HookPasses(f, account) ==
    __dns(Begin(f, TRUE, {}), resolv, account_to_nic(account), "BOUND",
          <<"n1">>, <<"">>, FALSE).c.exit = None

\* C34 as stated: whenever lease polling for an account A begins (lease_vpn_ip(A),
\* reached from do_connect, from add or from the start hook of the service),
\* the current pointer of the store is A already, so that a DHCP hook for
\* the interface of A during the lease passes the current-account check.
C34_CurrentBeforeLease_AsStated ==
    [][ \A i \in DOMAIN trace' :
            trace'[i].ev = "lease_vpn_ip" =>
                /\ get_current(_load(FileAt(trace', i, file))) = trace'[i].account
                /\ HookPasses(FileAt(trace', i, file), trace'[i].account) ]_vars

\* the device probe of the handler that ran last went through
ProbeOk(t) == Len(t) >= 1 /\ t[1] = [ev |-> "probe", ok |-> TRUE]

\* C35: the current pointer follows the hooks of the OS service.  A start
\* hook that finds a default account D writes current = D first, before it
\* starts the VPN client and before lease polling, and current is D after
\* it; with no default set it changes nothing and starts nothing; after the
\* stop hook current is empty, whatever it was.  (A hook whose device probe
\* fails ends there.)
C35_CurrentFollowsHooks ==
    [][ /\ (op'.name = "start" /\ ProbeOk(trace')) =>
            LET D == get_default(_load(file))
            IN  IF Falsy(D)
                THEN /\ file' = file
                     /\ installed' = installed
                     /\ Len(trace') = 1
                     /\ ret'.exit = None
                ELSE /\ Len(trace') >= 2
                     /\ trace'[2] = DumpEvent(set_current(file, D))
                     /\ get_current(_load(file')) = D
                     /\ \A i \in DOMAIN trace' :
                           trace'[i].ev \in {"vpnclient_start", "lease_vpn_ip",
                                             "AccountStatusGet", "lease_ip", "get_vpn_ip"}
                               => i > 2
        /\ (op'.name = "stop" /\ ProbeOk(trace')) =>
            get_current(_load(file')) = "" ]_vars

\* the start hook has made the default account the current one, started the
\* client and leased an address
C35_Witness ==
    /\ op.name = "start"
    /\ ret.exit = None
    /\ get_default(file) = "a"
    /\ get_current(file) = "a"
    /\ EventsOf(trace, "vpnclient_start") # {}
    /\ EventsOf(trace, "get_vpn_ip") # {}

\* C36 as stated: the connect command leaves the existing connection intact
\* on error: for an account that is not in the store (and is not the
\* default) it fails with the account-not-found code, with the current
\* pointer unchanged and without having disconnected the current account
\* or stopped the OS service.
C36_ConnectKeepsConnection_AsStated ==
    [][ (/\ op'.name = "connect"
         /\ ProbeOk(trace')
         /\ ~Falsy(op'.account)
         /\ op'.account \notin DOMAIN _accounts(_load(file))
         /\ op'.account # get_default(_load(file))) =>
            /\ ret'.exit = "VPN_ACCOUNT_NOT_FOUND"
            /\ get_current(_load(file')) = get_current(_load(file))
            /\ EventsOf(trace', "stop") = {}
            /\ \A i \in EventsOf(trace', "exec_command") :
                  ~(trace'[i].params = get_current(_load(file))
                    /\ "AccountDisconnect" \in Range(trace'[i].commands)) ]_vars

\* C37 as stated: after do_uninstall, from any store state and for any
\* flags, no account remains in the store and both the default and the
\* current pointer are empty; the service was stopped if a current account
\* existed and disabled if a default account existed; and no error is
\* raised, also when uninstall runs a second time on the state it left.
C37_UninstallClearsStore_AsStated ==
    [][ (op'.name = "uninstall" /\ ProbeOk(trace')) =>
            /\ ret'.exit = None
            /\ DOMAIN _accounts(_load(file')) = {}
            /\ Falsy(get_default(_load(file')))
            /\ Falsy(get_current(_load(file')))
            /\ ~Falsy(get_current(_load(file))) => EventsOf(trace', "stop") # {}
            /\ ~Falsy(get_default(_load(file))) => EventsOf(trace', "disable") # {} ]_vars

(***************************************************************************)
(* Claims on the status of a service (checked under SpecStatus).           *)
(***************************************************************************)
\* C38: ServiceStatus.parse is total over the status text: it returns the
\* member whose text is the input exactly (so the text of a member gives
\* that member) and UNKNOWN for every other input, the empty output
\* included, and never raises.
C38_ParseTotal ==
    [][ op'.name = "status" =>
            /\ ret' \in Range(ServiceStatus)
            /\ ret' = IF \E i \in DOMAIN ServiceStatus : ServiceStatus[i] = op'.text
                      THEN op'.text
                      ELSE UNKNOWN ]_vars

\* a text that differs from a member's text in its case only was parsed
C38_Witness ==
    /\ op.name = "status"
    /\ op.text = "Active(running)"
    /\ ret = UNKNOWN

====
